---- MODULE Spec2Model ----
(***************************************************************************)
(* Model of the neorest message runtime: the per-connection protocol       *)
(* engine (Connection), its transport (CommunicationStrategy) and the      *)
(* peer that talks to it.                                                  *)
(*                                                                         *)
(* Encoding notes.                                                         *)
(*  - Arrays are 1-based sequences; the code's "no index" value -1 is      *)
(*    NoIdx = 0 here.                                                      *)
(*  - A Payload is a sequence of strings: the JSON string "s" is <<"s">>,  *)
(*    the JSON array [k, v] is <<k, v>>.                                   *)
(*  - sentAt is kept as the entry's age (now - sentAt) in milliseconds;    *)
(*    time passes in steps of TickMs and an age saturates once it is past  *)
(*    the resend threshold.                                                *)
(*  - A step is one run of a handler to completion, together with the      *)
(*    promise continuations it makes runnable at once.                     *)
(***************************************************************************)
EXTENDS Integers, Sequences, FiniteSets, TLC

(* ------------------------------ bounds -------------------------------- *)
MaxMsgs == 2
MaxInId == 0
MaxSentAmount == 2
TickMs == 3000
MaxAllMsgs == 1
MaxRateMsgs == 102

(* The sockets a router accepts. *)
MaxSockets == 2

(* The envelopes a server connection receives. *)
MaxInbound == 2

(* The route messages a router sends to one connection. *)
MaxSends == 1

(* The envelopes a connection that only subscribes receives. *)
MaxSubscribing == 4

(* ------------------------- program constants -------------------------- *)
RESEND_NOT_ANSWERED_MESSAGES_AFTER_MS == 3000
SEND_LIMIT_PER_SEC == 100

DATA_SET == "set"
PING == "ping"
ON_ROUTE == "on"
OFF_ROUTE == "off"
RESPONSE == "res"
ROUTE_MESSAGE == "route"

NoIdx == 0

RouteVerb == {"ANY", "GET", "POST", "DELETE", "LISTEN", "RESPONSE"}
SendAndForgetMsgID == -1

(* ------------------------------ messages ------------------------------ *)
Text(s) == <<s>>

msg_ConnDataSet(key, value) == [type |-> DATA_SET, key |-> key, value |-> value]

pingMsg == [type |-> PING]

new_MsgSubscribeToRoute(route) == [type |-> ON_ROUTE, route |-> route]

new_MsgUnsubscribeFromRoute(route) == [type |-> OFF_ROUTE, route |-> route]

new_MsgResponse(targetMsgId, status, data) ==
  [type |-> RESPONSE, target |-> targetMsgId, status |-> status, data |-> data]

(* The value of an absent (undefined) payload or field. *)
Undefined == <<>>

new_MsgResponseOK(targetMsgId, data) ==
  new_MsgResponse(targetMsgId, 200, IF data # Undefined THEN data ELSE Text("OK"))

new_MsgResponseWithCode(targetMsgId, status, text) ==
  [type |-> RESPONSE, target |-> targetMsgId, status |-> status, data |-> text]

new_MsgGenericError(targetMsgId, text) ==
  new_MsgResponseWithCode(targetMsgId, 500, text)

new_RouteResponse(data) == [data |-> data, error |-> Undefined]

new_RouteResponseError(error) == [data |-> Text(""), error |-> error]

new_MsgRoute(route, verb, data) ==
  [type |-> ROUTE_MESSAGE, verb |-> verb, route |-> route, data |-> data]

new_MsgWrapper(id, msg) == [id |-> id, msg |-> msg]

new_SendAndForgetMsgWrapper(msg) == [id |-> SendAndForgetMsgID, msg |-> msg]

(* An envelope body of a type the engine does not know. *)
UnknownMsg == [type |-> "err"]

(* --------------------------- tracked outcome -------------------------- *)
(* A promise is [promise |-> TRUE, state, value]; a plain value is         *)
(* [promise |-> FALSE, state |-> "value", value].                          *)
Null == [type |-> "null", target |-> SendAndForgetMsgID, status |-> 0, data |-> Undefined]

Value(v) == [promise |-> FALSE, state |-> "value", value |-> v]

PendingPromise == [promise |-> TRUE, state |-> "pending", value |-> Null]

Resolved(v) == [promise |-> TRUE, state |-> "fulfilled", value |-> v]

Rejected == [promise |-> TRUE, state |-> "rejected", value |-> Null]

(* A tracked outcome that never reports itself pending. *)
TrackedPromiseNeverPending(promiseOrValue) ==
  [ original    |-> promiseOrValue,
    isPending   |-> FALSE,
    isFulfilled |-> ~promiseOrValue.promise \/ promiseOrValue.state = "fulfilled",
    isRejected  |-> promiseOrValue.promise /\ promiseOrValue.state = "rejected" ]

TrackedPromise(promiseOrValue) ==
  [ original    |-> promiseOrValue,
    isPending   |-> promiseOrValue.promise /\ promiseOrValue.state = "pending",
    isFulfilled |-> ~promiseOrValue.promise \/ promiseOrValue.state = "fulfilled",
    isRejected  |-> promiseOrValue.promise /\ promiseOrValue.state = "rejected" ]

(* ----------------------------- sequences ------------------------------ *)
RemoveAt(s, i) == SubSeq(s, 1, i - 1) \o SubSeq(s, i + 1, Len(s))

(* ------------------------------- state -------------------------------- *)
VARIABLES
  strategy,                      \* the transport: "closed", "connecting", "open"
  pending,                       \* the call awaiting strategy.connect(): "none", "connect", "setStrategy"
  nextMsgId,
  messagesToAck,                 \* sequence of [wrappedMsg, age, sentAmount]
  receivedMessages,              \* sequence of [wrapper, response]
  messagesToSendAfterReconnect,  \* sequence of wrappers
  callbacks,                     \* function: message id -> callback kind
  messagesSentInASecond,
  header,                        \* function: key -> payload
  closedByUser,                  \* close() was called and neither connect() nor setStrategy() since
  last,                          \* the last step: [op, id, emitted, cbs]
  firstTx,                       \* ids in the order of their first transmission
  cbCalls,                       \* function: message id -> invocations of its callback
  handlerCalls,                  \* function: inbound id -> invocations of the hook for it
  delivered,                     \* function: inbound id -> deliveries (saturating at 2)
  firstResponse,                 \* function: inbound id -> response transmitted for its first handling
  windowNo429,                   \* sendToRoute calls since the last reset that fired no 429 callback
  isClient,                      \* newClient (TRUE) or newServer (FALSE)
  kind,                          \* the class of the strategy: "websocket" or "http"
  closingTimer,                  \* the grace timer is pending
  ping,                          \* the round of pingPong in progress: [active, id, pongReceived, okSeen]
  router,                        \* the Router: [connections, inRoutes, outRoutes, thens]
  conns,                         \* the server Connections the router created, in creation order
  routed                         \* the last step of the router

vars ==
  << strategy, pending, nextMsgId, messagesToAck, receivedMessages,
     messagesToSendAfterReconnect, callbacks, messagesSentInASecond, header,
     closedByUser, last, firstTx, cbCalls, handlerCalls, delivered,
     firstResponse, windowNo429, isClient, kind, closingTimer, ping,
     router, conns, routed >>

RouterVars == << router, conns, routed >>

InIds == 0 .. MaxInId

HeaderKeys == {"secret"}

Kinds == {"websocket", "http"}

(* onClose: the step invoked the connection's onClose hook; threw: the     *)
(* switch of handleMessage raised; res: the res body the step handled.      *)
Step(op, id, emitted, cbs) ==
  [op |-> op, id |-> id, emitted |-> emitted, cbs |-> cbs, onClose |-> FALSE,
   threw |-> FALSE, res |-> Null]

(* --------------------------- the transport ---------------------------- *)
isConnected == strategy = "open"

(* strategy.send(message): the envelopes that reach the wire.  A transport *)
(* that is not open raises and transmits nothing.                          *)
StrategySend(connected, message) == IF connected THEN <<message>> ELSE <<>>

(* ------------------------ Connection: send path ----------------------- *)
(* An acknowledgement test that does not look at the id. *)
messageNeedsAckAnyId(wrappedMsg) == wrappedMsg.msg.type # RESPONSE

messageNeedsAck(wrappedMsg) ==
  wrappedMsg.id # SendAndForgetMsgID /\ wrappedMsg.msg.type # RESPONSE

(* A search that finds no entry. *)
LastIndexOfIdNone(acks, id, i) == NoIdx

RECURSIVE LastIndexOfId(_, _, _)
LastIndexOfId(acks, id, i) ==
  IF i = 0 THEN NoIdx
  ELSE IF acks[i].wrappedMsg.id = id THEN i
  ELSE LastIndexOfId(acks, id, i - 1)

(* The new messagesToAck and what reached the wire. *)
sendWrappedMsg(connected, acks, wrappedMsg, sentIdx) ==
  LET targetIndex ==
        IF sentIdx = NoIdx THEN LastIndexOfId(acks, wrappedMsg.id, Len(acks))
        ELSE sentIdx
      upserted ==
        IF ~messageNeedsAck(wrappedMsg) THEN acks
        ELSE IF targetIndex = NoIdx
          THEN Append(acks, [wrappedMsg |-> wrappedMsg, age |-> 0, sentAmount |-> 1])
          ELSE [acks EXCEPT ![targetIndex].sentAmount = @ + 1,
                            ![targetIndex].age = 0]
  IN [acks |-> upserted, sent |-> StrategySend(connected, wrappedMsg)]

(* A post that does not look at the type of the body. *)
postAndExpectResponseUnchecked(msg) ==
  LET id == nextMsgId
      wrappedMsg == new_MsgWrapper(id, msg)
      r == sendWrappedMsg(isConnected, messagesToAck, wrappedMsg, NoIdx)
  IN IF isConnected
       THEN [threw |-> FALSE, id |-> id, nextMsgId |-> id + 1,
             acks |-> r.acks, queue |-> messagesToSendAfterReconnect,
             sent |-> r.sent]
       ELSE [threw |-> FALSE, id |-> id, nextMsgId |-> id + 1,
             acks |-> messagesToAck,
             queue |-> Append(messagesToSendAfterReconnect, wrappedMsg),
             sent |-> <<>>]

(* A post that takes a fresh id only on an open transport. *)
postAndExpectResponseIdKept(msg) ==
  LET id == nextMsgId
      wrappedMsg == new_MsgWrapper(id, msg)
      r == sendWrappedMsg(isConnected, messagesToAck, wrappedMsg, NoIdx)
  IN IF isConnected
       THEN [threw |-> FALSE, id |-> id, nextMsgId |-> id + 1,
             acks |-> r.acks, queue |-> messagesToSendAfterReconnect,
             sent |-> r.sent]
       ELSE [threw |-> FALSE, id |-> id, nextMsgId |-> id,
             acks |-> messagesToAck,
             queue |-> Append(messagesToSendAfterReconnect, wrappedMsg),
             sent |-> <<>>]

(* The allocated id, the new nextMsgId, messagesToAck and reconnect queue, *)
(* and what reached the wire.                                              *)
postAndExpectResponse(msg) ==
  IF msg.type = RESPONSE
    THEN [threw |-> TRUE, id |-> SendAndForgetMsgID, nextMsgId |-> nextMsgId,
          acks |-> messagesToAck, queue |-> messagesToSendAfterReconnect,
          sent |-> <<>>]
    ELSE LET id == nextMsgId
             wrappedMsg == new_MsgWrapper(id, msg)
             r == sendWrappedMsg(isConnected, messagesToAck, wrappedMsg, NoIdx)
         IN IF isConnected
              THEN [threw |-> FALSE, id |-> id, nextMsgId |-> id + 1,
                    acks |-> r.acks, queue |-> messagesToSendAfterReconnect,
                    sent |-> r.sent]
              ELSE [threw |-> FALSE, id |-> id, nextMsgId |-> id + 1,
                    acks |-> messagesToAck,
                    queue |-> Append(messagesToSendAfterReconnect, wrappedMsg),
                    sent |-> <<>>]

(* postAndForget(msgOrPromise) on the messagesToAck it finds: the new      *)
(* messagesToAck and what reaches the wire.  A pending promise sends        *)
(* nothing yet, a rejected one never does.                                  *)
postAndForget(acks, msgOrPromise) ==
  IF msgOrPromise.state \in {"pending", "rejected"} THEN [acks |-> acks, sent |-> <<>>]
  ELSE IF isConnected
    THEN sendWrappedMsg(isConnected, acks,
                        new_SendAndForgetMsgWrapper(msgOrPromise.value), NoIdx)
    ELSE [acks |-> acks, sent |-> <<>>]

RECURSIVE sendAll(_, _, _, _)
sendAll(connected, acks, msgs, sent) ==
  IF msgs = <<>> THEN [acks |-> acks, sent |-> sent]
  ELSE LET r == sendWrappedMsg(connected, acks, Head(msgs), NoIdx)
       IN sendAll(connected, r.acks, Tail(msgs), sent \o r.sent)

(* sendMessagesFromLaterList without its final reset of the queue. *)
sendMessagesFromLaterListKeepsQueue(connected) ==
  LET r == sendAll(connected, messagesToAck, messagesToSendAfterReconnect, <<>>)
  IN [acks |-> r.acks, queue |-> messagesToSendAfterReconnect, sent |-> r.sent]

(* The new messagesToAck and reconnect queue, and what reached the wire. *)
sendMessagesFromLaterList(connected) ==
  LET r == sendAll(connected, messagesToAck, messagesToSendAfterReconnect, <<>>)
  IN [acks |-> r.acks, queue |-> <<>>, sent |-> r.sent]

(* The retry timer's loop without its age test. *)
RECURSIVE resendEvery(_, _, _)
resendEvery(acks, i, sent) ==
  IF i > Len(acks) THEN [acks |-> acks, sent |-> sent]
  ELSE LET r == sendWrappedMsg(isConnected, acks, acks[i].wrappedMsg, i)
       IN resendEvery(r.acks, i + 1, sent \o r.sent)

(* The retry timer's loop from index i on. *)
RECURSIVE resendOverdue(_, _, _)
resendOverdue(acks, i, sent) ==
  IF i > Len(acks) THEN [acks |-> acks, sent |-> sent]
  ELSE IF acks[i].age > RESEND_NOT_ANSWERED_MESSAGES_AFTER_MS
    THEN LET r == sendWrappedMsg(isConnected, acks, acks[i].wrappedMsg, i)
         IN resendOverdue(r.acks, i + 1, sent \o r.sent)
    ELSE resendOverdue(acks, i + 1, sent)

(* A removal that takes the oldest entry, whatever its id. *)
removeMessageToAckOldest(acks, id) == IF acks = <<>> THEN acks ELSE Tail(acks)

removeMessageToAck(acks, id) ==
  LET i == LastIndexOfId(acks, id, Len(acks))
  IN IF i = NoIdx THEN acks ELSE RemoveAt(acks, i)

(* The ids of `sent` that were never transmitted before, appended. *)
RECURSIVE NoteFirstTx(_, _)
NoteFirstTx(tx, sent) ==
  IF sent = <<>> THEN tx
  ELSE LET id == Head(sent).id
       IN NoteFirstTx(
            IF id = SendAndForgetMsgID \/ (\E k \in 1 .. Len(tx) : tx[k] = id)
              THEN tx ELSE Append(tx, id),
            Tail(sent))

(* ----------------------------- small maps ----------------------------- *)
MapSet(m, k, v) == [x \in DOMAIN m \cup {k} |-> IF x = k THEN v ELSE m[x]]

MapDelete(m, k) == [x \in DOMAIN m \ {k} |-> m[x]]

MapGet(m, k, default) == IF k \in DOMAIN m THEN m[k] ELSE default

EmptyMap == [x \in {} |-> 0]

(* ---------------------- Connection: receive path ---------------------- *)
(* A lookup that never finds the envelope. *)
getReceivedPairByIdNever(received, id, i) == NoIdx

RECURSIVE getReceivedPairById(_, _, _)
getReceivedPairById(received, id, i) ==
  IF i = 0 THEN NoIdx
  ELSE IF received[i].wrapper.id = id THEN i
  ELSE getReceivedPairById(received, id, i - 1)

(* The new callbacks and messagesToAck, and the callbacks invoked. *)
handleResponse(msg) ==
  IF msg.status = 202
    THEN [callbacks |-> callbacks, acks |-> messagesToAck, cbs |-> <<>>]
    ELSE LET response == IF msg.status = 200 THEN new_RouteResponse(msg.data)
                         ELSE new_RouteResponseError(msg.data)
             msgId == msg.target
         IN [callbacks |-> MapDelete(callbacks, msgId),
             acks |-> removeMessageToAck(messagesToAck, msgId),
             cbs |-> IF msgId \in DOMAIN callbacks
                       THEN << [id |-> msgId, response |-> response] >>
                       ELSE <<>>]

(* What onRouteMessage may do: yield nothing, yield a response, or fail. *)
Void == [kind |-> "void", resp |-> new_RouteResponse(Undefined)]

Yield(resp) == [kind |-> "response", resp |-> resp]

Failure == [kind |-> "failure", resp |-> new_RouteResponse(Undefined)]

(* A connection that answers every settled route message with status 200. *)
handleRouteMessageAlwaysOK(msgId, outcome) ==
  IF outcome.kind = "failure" THEN Rejected
  ELSE Resolved(new_MsgResponseOK(msgId, outcome.resp.data))

(* The promise handleRouteMessage returns, once onRouteMessage has settled. *)
(* A connection that answers "not found" when the hook returns nothing. *)
handleRouteMessageVoidIsError(msgId, outcome) ==
  IF outcome.kind = "failure" THEN Rejected
  ELSE IF outcome.kind = "void"
    THEN Resolved(new_MsgResponseWithCode(msgId, 404, Text("Not found")))
  ELSE IF outcome.resp.error \in {Undefined, Text("")}
    THEN Resolved(new_MsgResponseOK(msgId, outcome.resp.data))
    ELSE Resolved(new_MsgResponseWithCode(msgId, 400, outcome.resp.error))

handleRouteMessage(msgId, outcome) ==
  IF outcome.kind = "failure" THEN Rejected
  ELSE IF outcome.kind = "void" THEN Resolved(new_MsgResponseOK(msgId, Undefined))
  ELSE IF outcome.resp.error \in {Undefined, Text("")}
    THEN Resolved(new_MsgResponseOK(msgId, outcome.resp.data))
    ELSE Resolved(new_MsgResponseWithCode(msgId, 400, outcome.resp.error))

(* A handleDataSet that answers with the value alone. *)
handleDataSetValueOnly(msgId, msg) ==
  [header |-> MapSet(header, msg.key, msg.value),
   response |-> new_MsgResponseOK(msgId, <<msg.value>>)]

(* handleDataSet(msgId, msg), its call of onDataSet apart: the header it    *)
(* leaves and the response it returns.                                      *)
handleDataSet(msgId, msg) ==
  [header |-> MapSet(header, msg.key, msg.value),
   response |-> new_MsgResponseOK(msgId, <<msg.key, msg.value>>)]

HookTypes == {DATA_SET, ON_ROUTE, OFF_ROUTE, ROUTE_MESSAGE}

(* The switch of handleMessage: whether it raised, the response it chose,  *)
(* the state it wrote and the hooks and callbacks it invoked.              *)
dispatch(id, msg, hookThrows) ==
  LET same == [threw |-> FALSE, response |-> Value(Null), header |-> header,
               callbacks |-> callbacks, acks |-> messagesToAck, cbs |-> <<>>,
               hooks |-> 0]
  IN CASE msg.type = DATA_SET ->
            [same EXCEPT !.header = handleDataSet(id, msg).header,
                         !.hooks = 1,
                         !.threw = hookThrows,
                         !.response = IF hookThrows THEN Value(Null)
                                      ELSE Value(handleDataSet(id, msg).response)]
       [] msg.type = PING ->
            [same EXCEPT !.response = Value(new_MsgResponseOK(id, Text("pong")))]
       [] msg.type = RESPONSE ->
            LET r == handleResponse(msg)
            IN [same EXCEPT !.callbacks = r.callbacks, !.acks = r.acks, !.cbs = r.cbs]
       [] msg.type \in {ON_ROUTE, OFF_ROUTE} ->
            [same EXCEPT !.hooks = 1,
                         !.threw = hookThrows,
                         !.response = IF hookThrows THEN Value(Null)
                                      ELSE Value(new_MsgResponseOK(id, Undefined))]
       [] msg.type = ROUTE_MESSAGE ->
            [same EXCEPT !.hooks = 1, !.response = PendingPromise]
       [] OTHER ->
            [same EXCEPT !.threw = TRUE]

(* ------------------------------ ping loop ----------------------------- *)
(* No call of sendPingWaitForPong is waiting.  okSeen records that a res    *)
(* with status 200 for the ping was handled during the round.               *)
NoRound == [active |-> FALSE, id |-> SendAndForgetMsgID, pongReceived |-> FALSE,
            okSeen |-> FALSE]

(* The callback of sendPingWaitForPong applied to a response. *)
pongCallback(response) == response.error \in {Undefined, Text("")}

(* The round after the callbacks cbs were invoked. *)
RECURSIVE notePong(_, _)
notePong(round, cbs) ==
  IF cbs = <<>> THEN round
  ELSE LET c == Head(cbs)
           hit == round.active /\ c.id = round.id /\ "error" \in DOMAIN c.response
       IN notePong(
            IF hit
              THEN [round EXCEPT !.pongReceived = @ \/ pongCallback(c.response),
                                 !.okSeen = @ \/ c.response.error = Undefined]
              ELSE round,
            Tail(cbs))

(* pingPong closes the connection when the round is not answered. *)
roundNeverCloses(pongReceived) == FALSE

roundCloses(pongReceived) == ~pongReceived

(* ------------------------------ the router --------------------------- *)
(* A path is the sequence of its segments: "/t/1" is << "t", "1" >>.  A     *)
(* segment of a pattern that starts with a colon is a key.                  *)
KeyName == [seg \in {":id", ":kind"} |-> IF seg = ":id" THEN "id" ELSE "kind"]

IsKey(seg) == seg \in DOMAIN KeyName

RECURSIVE KeysOf(_)
KeysOf(route) ==
  IF route = <<>> THEN <<>>
  ELSE (IF IsKey(Head(route)) THEN << KeyName[Head(route)] >> ELSE <<>>) \o KeysOf(Tail(route))

(* pathToRegexp(route, keys): the expression keeps the literal segments and *)
(* one unnamed capture group per key, so that patterns that differ only in  *)
(* the names of their keys compile to the same expression.                  *)
pathToRegexp(route) ==
  [regexp |-> [i \in 1 .. Len(route) |-> IF IsKey(route[i]) THEN ":" ELSE route[i]],
   keys |-> KeysOf(route)]

NoMatch == [matched |-> FALSE, params |-> <<>>]

RECURSIVE Captures(_, _)
Captures(regexp, path) ==
  IF regexp = <<>> THEN <<>>
  ELSE (IF Head(regexp) = ":" THEN << Head(path) >> ELSE <<>>)
         \o Captures(Tail(regexp), Tail(path))

(* match(regexp)(path): the whole path has to match; params holds the       *)
(* captures by position (Object.values(params) is the same sequence).       *)
match(regexp, path) ==
  IF /\ Len(regexp) = Len(path)
     /\ \A i \in 1 .. Len(regexp) : regexp[i] = ":" \/ regexp[i] = path[i]
    THEN [matched |-> TRUE, params |-> Captures(regexp, path)]
    ELSE NoMatch

NoConn == 0

NewRouter == [connections |-> EmptyMap, inRoutes |-> <<>>, outRoutes |-> <<>>, thens |-> <<>>]

(* sent: the connections whose sendToRoute the step called, in call order;  *)
(* invoked: the handlers the step called, each with the params it was given *)
(* before: the outbound layers as a subscription found them; threw: the     *)
(* call raised; sender: the ctx.sender the invoked handler was given        *)
RouterStep(op, conn, input) ==
  [op |-> op, conn |-> conn, input |-> input, emitted |-> <<>>, sent |-> <<>>,
   invoked |-> <<>>, onClose |-> FALSE, before |-> <<>>, threw |-> FALSE,
   sender |-> NoConn]

(* ctx.sender of handleRouteMessage(connSecret, msgId, msg): the directory  *)
(* entry of the secret, NoConn standing for undefined.                      *)
sender(r, connSecret) == MapGet(r.connections, connSecret, NoConn)

(* Connection.newServer(socket, onDataSet): the fields of the connection    *)
(* the router reads and writes.  receivedMessages keeps the ids only;       *)
(* replaced holds the sockets the connection was bound to before and that   *)
(* have not closed yet: their onclose still refers to the connection.       *)
newServer(socket) ==
  [secret |-> "", socket |-> socket, readyState |-> "OPEN", closingTimer |-> FALSE,
   replaced |-> {},
   nextMsgId |-> 0, messagesToAck |-> <<>>, messagesToSendAfterReconnect |-> <<>>,
   receivedMessages |-> <<>>]

(* The index of the first layer compiled to this expression, or NoIdx. *)
RECURSIVE LayerOf(_, _, _)
LayerOf(layers, regexp, i) ==
  IF i > Len(layers) THEN NoIdx
  ELSE IF layers[i].regexp = regexp THEN i
  ELSE LayerOf(layers, regexp, i + 1)

RECURSIVE VerbIndex(_, _, _)
VerbIndex(verbs, verb, i) ==
  IF i > Len(verbs) THEN NoIdx
  ELSE IF verbs[i].verb = verb THEN i
  ELSE VerbIndex(verbs, verb, i + 1)

setInRoute(inRoutes, route, verb, handler) ==
  LET compiled == pathToRegexp(route)
      found == LayerOf(inRoutes, compiled.regexp, 1)
      layers ==
        IF found = NoIdx
          THEN Append(inRoutes, [route |-> route, regexp |-> compiled.regexp,
                                 keys |-> compiled.keys, verbs |-> <<>>])
          ELSE inRoutes
      target == IF found = NoIdx THEN Len(layers) ELSE found
      vh == VerbIndex(layers[target].verbs, verb, 1)
  IN IF vh = NoIdx
       THEN [layers EXCEPT ![target].verbs = Append(@, [verb |-> verb, handler |-> handler])]
       ELSE [layers EXCEPT ![target].verbs[vh].handler = handler]

setOutRoute(outRoutes, route, validate) ==
  LET compiled == pathToRegexp(route)
  IN IF LayerOf(outRoutes, compiled.regexp, 1) = NoIdx
       THEN Append(outRoutes, [route |-> route, regexp |-> compiled.regexp,
                               keys |-> compiled.keys, listeners |-> <<>>,
                               validate |-> validate])
       ELSE outRoutes

(* A layer after subscribeConnectionToRoute met it in its loop. *)
subscribeToLayer(layer, path, connSecret) ==
  LET m == match(layer.regexp, path)
  IN IF m.matched
       THEN [layer EXCEPT !.listeners = Append(@, [conn |-> connSecret, params |-> m.params])]
       ELSE layer

(* A subscription that does not look the secret up in the directory. *)
subscribeConnectionToRouteUnchecked(r, path, connSecret) ==
  [threw |-> FALSE,
   outRoutes |-> [i \in 1 .. Len(r.outRoutes) |->
                    subscribeToLayer(r.outRoutes[i], path, connSecret)]]

(* subscribeConnectionToRoute(path, connSecret): [threw, outRoutes] *)
subscribeConnectionToRoute(r, path, connSecret) ==
  IF connSecret \notin DOMAIN r.connections
    THEN [threw |-> TRUE, outRoutes |-> r.outRoutes]
    ELSE [threw |-> FALSE,
          outRoutes |-> [i \in 1 .. Len(r.outRoutes) |->
                           subscribeToLayer(r.outRoutes[i], path, connSecret)]]

RECURSIVE filter(_, _)
filter(listeners, connSecret) ==
  IF listeners = <<>> THEN <<>>
  ELSE (IF Head(listeners).conn # connSecret THEN << Head(listeners) >> ELSE <<>>)
         \o filter(Tail(listeners), connSecret)

(* A layer after unsubsctibeConnectionFromRoute met it in its loop. *)
unsubscribeFromLayer(layer, path, connSecret) ==
  IF match(layer.regexp, path).matched
    THEN [layer EXCEPT !.listeners = filter(@, connSecret)]
    ELSE layer

(* unsubsctibeConnectionFromRoute(path, connSecret): [threw, outRoutes] *)
unsubsctibeConnectionFromRoute(r, path, connSecret) ==
  IF connSecret \notin DOMAIN r.connections
    THEN [threw |-> TRUE, outRoutes |-> r.outRoutes]
    ELSE [threw |-> FALSE,
          outRoutes |-> [i \in 1 .. Len(r.outRoutes) |->
                           unsubscribeFromLayer(r.outRoutes[i], path, connSecret)]]

(* removeConnection(connSecret): the result of filter is dropped, so the    *)
(* listeners stay as they were.                                             *)
removeConnection(r, connSecret) ==
  [r EXCEPT !.connections = MapDelete(@, connSecret)]

(* The validators an application registers: "allow" answers true, "onlyA"   *)
(* answers whether the connection's secret is "a", "onlyALater" answers a   *)
(* promise of the same.  [promise, isValid]                                 *)
Validators == {"allow", "onlyA", "onlyALater"}

validate(validator, conn) ==
  [promise |-> validator = "onlyALater",
   isValid |-> validator = "allow" \/ conn.secret = "a"]

(* A listener whose parameters differ from the broadcast's is passed over. *)
paramsMatchAlways(listenerParams, paramsArr) == TRUE

paramsMatch(listenerParams, paramsArr) ==
  \A i \in 1 .. Len(listenerParams) : listenerParams[i] = paramsArr[i]

(* The loop of internalBroadcast over the listeners of one matching layer.  *)
(* acc: [sent, thens, threw]; a listener whose connection left the          *)
(* directory makes the validator or the send raise, which ends the          *)
(* broadcast.                                                               *)
RECURSIVE broadcastToListeners(_, _, _, _, _, _, _)
broadcastToListeners(r, cs, layer, paramsArr, exceptConn, j, acc) ==
  IF acc.threw \/ j > Len(layer.listeners) THEN acc
  ELSE LET listener == layer.listeners[j]
           conn == MapGet(r.connections, listener.conn, NoConn)
           next ==
             IF conn = exceptConn \/ ~paramsMatch(listener.params, paramsArr) THEN acc
             ELSE IF conn = NoConn
               THEN (IF layer.validate = "onlyALater" THEN acc
                     ELSE [acc EXCEPT !.threw = TRUE])
             ELSE LET isValidForListener == validate(layer.validate, cs[conn])
                  IN IF isValidForListener.promise
                       THEN [acc EXCEPT !.thens =
                               Append(@, [conn |-> conn, isValid |-> isValidForListener.isValid])]
                     ELSE IF isValidForListener.isValid
                       THEN [acc EXCEPT !.sent = Append(@, conn)]
                     ELSE acc
       IN broadcastToListeners(r, cs, layer, paramsArr, exceptConn, j + 1, next)

(* internalBroadcast(route, action, payload, exceptConn): the connections   *)
(* sent to and the validations left pending.                                *)
RECURSIVE internalBroadcast(_, _, _, _, _, _)
internalBroadcast(r, cs, route, exceptConn, i, acc) ==
  IF acc.threw \/ i > Len(r.outRoutes) THEN acc
  ELSE LET m == match(r.outRoutes[i].regexp, route)
       IN internalBroadcast(r, cs, route, exceptConn, i + 1,
            IF m.matched
              THEN broadcastToListeners(r, cs, r.outRoutes[i], m.params, exceptConn, 1, acc)
              ELSE acc)

(* conn.sendToRoute(route, verb, payload) of a server connection, without   *)
(* a callback: the counter of the rate limit plays no part.                 *)
sendToRoute(conn, route, verb, payload) ==
  LET msg == new_MsgRoute(route, verb, IF payload # Undefined THEN payload ELSE Text(""))
      wrappedMsg == new_MsgWrapper(conn.nextMsgId, msg)
  IN IF conn.readyState = "OPEN"
       THEN [conn EXCEPT !.nextMsgId = @ + 1,
                         !.messagesToAck =
                           Append(@, [wrappedMsg |-> wrappedMsg, age |-> 0, sentAmount |-> 1])]
       ELSE [conn EXCEPT !.nextMsgId = @ + 1,
                         !.messagesToSendAfterReconnect = Append(@, wrappedMsg)]

RECURSIVE sendToEach(_, _, _, _, _)
sendToEach(cs, sent, route, verb, payload) ==
  IF sent = <<>> THEN cs
  ELSE sendToEach([cs EXCEPT ![Head(sent)] = sendToRoute(@, route, verb, payload)],
                  Tail(sent), route, verb, payload)

(* A rebinding that starts the connection anew. *)
setSocketAnew(conn, socket) == newServer(socket)

(* setSocket(ws) of a server connection: the new socket replaces the old   *)
(* one and the grace timer is cleared.  The old socket keeps the onclose    *)
(* it was given.                                                            *)
setSocket(conn, socket) ==
  [conn EXCEPT !.socket = socket, !.readyState = "OPEN", !.closingTimer = FALSE,
               !.replaced = IF conn.readyState = "OPEN" THEN @ \cup {conn.socket} ELSE @]

(* The handlers an application registers: "echo" answers {ok: params.id},   *)
(* "refuse" sets ctx.error, "silent" sets neither, "raise" throws (or       *)
(* returns a promise that rejects).  [response, error, threw]               *)
Handlers == {"echo", "refuse", "silent", "raise"}

handler(h, params) ==
  [response |-> IF h = "echo"
                  THEN << "ok" >> \o (IF "id" \in DOMAIN params THEN params["id"] ELSE Undefined)
                  ELSE Undefined,
   error |-> IF h = "refuse" THEN Text("bad") ELSE Undefined,
   threw |-> h = "raise"]

VerbMismatchText(route, verb) ==
  << "Route " >> \o route \o << " does not support verb ", verb >>

(* params[route.keys[i]] = match.params[i], for every i in turn *)
ParamsOf(keys, captures) ==
  [k \in {keys[j] : j \in 1 .. Len(keys)} |->
     Text(captures[CHOOSE j \in 1 .. Len(keys) :
                     keys[j] = k /\ \A later \in (j + 1) .. Len(keys) : keys[later] # k])]

(* await verbAndHandler.handler(ctx) and what handleRouteMessage returns    *)
(* after it: [outcome, invoked]                                             *)
invokeHandler(inRoutes, i, vh, params) ==
  LET h == inRoutes[i].verbs[vh].handler
      ctx == handler(h, params)
  IN [outcome |-> IF ctx.threw THEN Failure
                  ELSE IF ctx.error \notin {Undefined, Text("")}
                    THEN Yield(new_RouteResponseError(ctx.error))
                    ELSE Yield(new_RouteResponse(ctx.response)),
      invoked |-> << [handler |-> h, layer |-> i, params |-> params] >>]

(* A loop that goes on to the next layer when the verb has no handler. *)
RECURSIVE routeToAnyLayer(_, _, _)
routeToAnyLayer(inRoutes, msg, i) ==
  IF i > Len(inRoutes) THEN [outcome |-> Void, invoked |-> <<>>]
  ELSE LET m == match(inRoutes[i].regexp, msg.route)
           vh == VerbIndex(inRoutes[i].verbs, msg.verb, 1)
       IN IF ~m.matched \/ vh = NoIdx THEN routeToAnyLayer(inRoutes, msg, i + 1)
          ELSE invokeHandler(inRoutes, i, vh, ParamsOf(inRoutes[i].keys, m.params))

(* Router.handleRouteMessage(connSecret, msgId, msg), from layer i on:      *)
(* [outcome, invoked]                                                       *)
RECURSIVE routeMessage(_, _, _)
routeMessage(inRoutes, msg, i) ==
  IF i > Len(inRoutes) THEN [outcome |-> Void, invoked |-> <<>>]
  ELSE LET m == match(inRoutes[i].regexp, msg.route)
           vh == VerbIndex(inRoutes[i].verbs, msg.verb, 1)
       IN IF ~m.matched THEN routeMessage(inRoutes, msg, i + 1)
          ELSE IF vh = NoIdx
            THEN [outcome |-> Yield(new_RouteResponseError(
                                      VerbMismatchText(msg.route, msg.verb))),
                  invoked |-> <<>>]
            ELSE invokeHandler(inRoutes, i, vh, ParamsOf(inRoutes[i].keys, m.params))

(* ------------------------------- Init --------------------------------- *)
(* new Connection(strategy, secret, isClient) *)
New(client, strategyKind) ==
  /\ isClient = client
  /\ kind = strategyKind
  /\ closingTimer = FALSE
  /\ ping = NoRound
  /\ strategy = "closed"
  /\ pending = "none"
  /\ nextMsgId = 0
  /\ messagesToAck = <<>>
  /\ receivedMessages = <<>>
  /\ messagesToSendAfterReconnect = <<>>
  /\ callbacks = EmptyMap
  /\ messagesSentInASecond = 0
  /\ header = [k \in HeaderKeys |-> IF client THEN "s0" ELSE ""]
  /\ closedByUser = FALSE
  /\ last = Step("new", SendAndForgetMsgID, <<>>, <<>>)
  /\ firstTx = <<>>
  /\ cbCalls = EmptyMap
  /\ handlerCalls = [i \in InIds |-> 0]
  /\ delivered = [i \in InIds |-> 0]
  /\ firstResponse = [i \in InIds |-> Null]
  /\ windowNo429 = 0
  /\ router = NewRouter
  /\ conns = <<>>
  /\ routed = RouterStep("new", NoConn, <<>>)

(* new Client(url): a client connection over the default strategy. *)
Init == New(TRUE, "websocket")

(* Any connection: newClient or newServer over either strategy. *)
InitAny == \E client \in BOOLEAN : \E strategyKind \in Kinds : New(client, strategyKind)

RECURSIVE NoteCalls(_, _)
NoteCalls(calls, cbs) ==
  IF cbs = <<>> THEN calls
  ELSE NoteCalls(MapSet(calls, Head(cbs).id, MapGet(calls, Head(cbs).id, 0) + 1), Tail(cbs))

(* ------------------------- transport lifecycle ------------------------ *)
TransportVars == << strategy, pending, closedByUser >>

OutVars == << nextMsgId, messagesToAck, messagesToSendAfterReconnect, callbacks, cbCalls, firstTx >>

RateVars == << messagesSentInASecond, windowNo429 >>

InVars == << receivedMessages, header, handlerCalls, delivered, firstResponse >>

GraceVars == << isClient, kind, closingTimer >>

(* Whether a strategy of this class ever invokes the handlers that          *)
(* setupStrategyHandlers registers: HttpStrategy keeps them and calls them  *)
(* from connect() and disconnect(); WebSocketStrategy attaches them to the  *)
(* socket only if one exists at registration, and connect() creates the     *)
(* socket afterwards without them.                                          *)
notifies(strategyKind) == strategyKind = "http"

(* The handler given to strategy.onClose: the grace timer afterwards and    *)
(* whether onClose was invoked.                                             *)
closeHandler(client, timer) ==
  IF client THEN [timer |-> timer, fired |-> TRUE]
  ELSE [timer |-> TRUE, fired |-> FALSE]

(* strategy.disconnect() or a failure of the transport, as the connection   *)
(* sees it.                                                                 *)
transportClosed(strategyKind, client, timer) ==
  IF notifies(strategyKind) THEN closeHandler(client, timer)
  ELSE [timer |-> timer, fired |-> FALSE]

clearClosingTimer == FALSE

(* connect(): strategy.connect() is started; it completes in ConnectResolved. *)
Connect ==
  /\ strategy = "closed"
  /\ strategy' = "connecting"
  /\ pending' = "connect"
  /\ closedByUser' = FALSE
  /\ last' = Step("connect", SendAndForgetMsgID, <<>>, <<>>)
  /\ UNCHANGED << RouterVars, ping, OutVars, RateVars, InVars, GraceVars >>

(* setStrategy(newStrategy) up to its await of connect(): close() on the    *)
(* old strategy, then the new one is installed and connect() started.       *)
SetStrategy(newKind) ==
  /\ strategy' = "connecting"
  /\ pending' = "setStrategy"
  /\ closedByUser' = FALSE
  /\ kind' = newKind
  /\ LET c == transportClosed(kind, isClient, clearClosingTimer)
     IN /\ closingTimer' = c.timer
        /\ last' = [Step("setStrategy", SendAndForgetMsgID, <<>>, <<>>)
                      EXCEPT !.onClose = c.fired]
  /\ UNCHANGED << RouterVars, ping, OutVars, RateVars, InVars, isClient >>

(* strategy.connect() completes: connect() invokes onOpen, and setStrategy *)
(* goes on to flush the reconnect queue.                                   *)
ConnectResolved ==
  /\ strategy = "connecting"
  /\ strategy' = "open"
  /\ pending' = "none"
  /\ LET r == IF pending = "setStrategy" THEN sendMessagesFromLaterList(TRUE)
              ELSE [acks |-> messagesToAck, queue |-> messagesToSendAfterReconnect,
                    sent |-> <<>>]
     IN /\ messagesToAck' = r.acks
        /\ messagesToSendAfterReconnect' = r.queue
        /\ firstTx' = NoteFirstTx(firstTx, r.sent)
        /\ last' = Step(IF pending = "setStrategy" THEN "setStrategyDone" ELSE "connectDone",
                        SendAndForgetMsgID, r.sent, <<>>)
  /\ closingTimer' = IF notifies(kind) THEN clearClosingTimer ELSE closingTimer
  /\ UNCHANGED << RouterVars, ping, closedByUser, nextMsgId, callbacks, cbCalls, RateVars, InVars,
                  isClient, kind >>

(* A disconnect that leaves the transport as it is. *)
disconnectIgnored(st) == st

(* strategy.disconnect(): the state of the transport afterwards. *)
disconnect(st) == "closed"

(* A close() that also empties the callbacks map. *)
CloseClearsCallbacks ==
  /\ strategy' = disconnect(strategy)
  /\ pending' = IF strategy' = "closed" THEN "none" ELSE pending
  /\ closedByUser' = TRUE
  /\ callbacks' = EmptyMap
  /\ LET c == transportClosed(kind, isClient, clearClosingTimer)
     IN /\ closingTimer' = c.timer
        /\ last' = [Step("close", SendAndForgetMsgID, <<>>, <<>>) EXCEPT !.onClose = c.fired]
  /\ UNCHANGED << RouterVars, ping, nextMsgId, messagesToAck, messagesToSendAfterReconnect,
                  cbCalls, firstTx, RateVars, InVars, isClient, kind >>

(* close(): the transport is disconnected; a connect() in flight fails. *)
Close ==
  /\ strategy' = disconnect(strategy)
  /\ pending' = IF strategy' = "closed" THEN "none" ELSE pending
  /\ closedByUser' = TRUE
  /\ LET c == transportClosed(kind, isClient, clearClosingTimer)
     IN /\ closingTimer' = c.timer
        /\ last' = [Step("close", SendAndForgetMsgID, <<>>, <<>>) EXCEPT !.onClose = c.fired]
  /\ UNCHANGED << RouterVars, ping, OutVars, RateVars, InVars, isClient, kind >>

(* The transport closes by itself (network failure, peer hang-up). *)
TransportDrop ==
  /\ strategy # "closed"
  /\ strategy' = "closed"
  /\ pending' = "none"
  /\ LET c == transportClosed(kind, isClient, closingTimer)
     IN /\ closingTimer' = c.timer
        /\ last' = [Step("drop", SendAndForgetMsgID, <<>>, <<>>) EXCEPT !.onClose = c.fired]
  /\ UNCHANGED << RouterVars, ping, closedByUser, OutVars, RateVars, InVars, isClient, kind >>

(* The grace timer set by the close handler expires. *)
GraceExpired ==
  /\ closingTimer
  /\ closingTimer' = FALSE
  /\ last' = [Step("graceExpired", SendAndForgetMsgID, <<>>, <<>>) EXCEPT !.onClose = TRUE]
  /\ UNCHANGED << RouterVars, ping, TransportVars, OutVars, RateVars, InVars, isClient, kind >>

(* ------------------------------ posting ------------------------------- *)
(* post(msg, callback?); a res body makes postAndExpectResponse raise       *)
(* before the callback is registered.                                       *)
Post(msg, hasCallback) ==
  LET r == postAndExpectResponse(msg)
  IN /\ nextMsgId' = r.nextMsgId
     /\ messagesToAck' = r.acks
     /\ messagesToSendAfterReconnect' = r.queue
     /\ callbacks' = IF hasCallback /\ ~r.threw THEN MapSet(callbacks, r.id, "app")
                     ELSE callbacks
     /\ firstTx' = NoteFirstTx(firstTx, r.sent)
     /\ last' = [Step("post", r.id, r.sent, <<>>) EXCEPT !.threw = r.threw]
     /\ UNCHANGED << RouterVars, ping, TransportVars, GraceVars, cbCalls, RateVars, InVars >>

RateLimitText == Text("Rate limit of 100 messages per second exceeded")

(* sendToRoute(route, verb, payload, headers?, callback?) *)
SendToRoute(route, verb, payload, hasCallback) ==
  LET limited == messagesSentInASecond > SEND_LIMIT_PER_SEC
      cbs == IF limited /\ hasCallback
               THEN << [id |-> nextMsgId,
                        response |-> new_MsgResponseWithCode(SendAndForgetMsgID, 429, RateLimitText)] >>
               ELSE <<>>
      msg == new_MsgRoute(route, verb, IF payload # Undefined THEN payload ELSE Text(""))
      r == postAndExpectResponse(msg)
  IN /\ nextMsgId' = r.nextMsgId
     /\ messagesToAck' = r.acks
     /\ messagesToSendAfterReconnect' = r.queue
     /\ messagesSentInASecond' = messagesSentInASecond + 1
     /\ callbacks' = IF hasCallback THEN MapSet(callbacks, r.id, "app") ELSE callbacks
     /\ cbCalls' = NoteCalls(cbCalls, cbs)
     /\ windowNo429' = IF cbs = <<>> THEN windowNo429 + 1 ELSE windowNo429
     /\ firstTx' = NoteFirstTx(firstTx, r.sent)
     /\ last' = Step("sendToRoute", r.id, r.sent, cbs)
     /\ UNCHANGED << RouterVars, ping, TransportVars, GraceVars, InVars >>

(* sendToRouteAndForget(route, verb, payload, headers?) *)
SendToRouteAndForget(route, verb, payload) ==
  LET r == postAndForget(messagesToAck, Value(new_MsgRoute(route, verb, payload)))
  IN /\ messagesToAck' = r.acks
     /\ last' = Step("forget", SendAndForgetMsgID, r.sent, <<>>)
     /\ UNCHANGED << RouterVars, ping, TransportVars, GraceVars, nextMsgId,
                     messagesToSendAfterReconnect, callbacks, cbCalls, firstTx,
                     RateVars, InVars >>

(* One round of pingPong on an open transport: sendPingWaitForPong posts a  *)
(* ping and registers its callback.                                        *)
SendPing ==
  /\ isConnected
  /\ ~ping.active
  /\ LET r == postAndExpectResponse(pingMsg)
     IN /\ nextMsgId' = r.nextMsgId
        /\ messagesToAck' = r.acks
        /\ messagesToSendAfterReconnect' = r.queue
        /\ callbacks' = MapSet(callbacks, r.id, "ping")
        /\ firstTx' = NoteFirstTx(firstTx, r.sent)
        /\ ping' = [active |-> TRUE, id |-> r.id, pongReceived |-> FALSE, okSeen |-> FALSE]
        /\ last' = Step("ping", r.id, r.sent, <<>>)
  /\ UNCHANGED << RouterVars, TransportVars, GraceVars, cbCalls, RateVars, InVars >>

(* The 5000 ms wait of sendPingWaitForPong ends: pingPong calls close() if  *)
(* the round was not answered.                                              *)
PongWaitEnds ==
  /\ ping.active
  /\ ping' = NoRound
  /\ IF roundCloses(ping.pongReceived)
       THEN /\ strategy' = disconnect(strategy)
            /\ pending' = IF strategy' = "closed" THEN "none" ELSE pending
            /\ closedByUser' = TRUE
            /\ LET c == transportClosed(kind, isClient, clearClosingTimer)
               IN /\ closingTimer' = c.timer
                  /\ last' = [Step("pongWait", ping.id, <<>>, <<>>) EXCEPT !.onClose = c.fired]
       ELSE /\ last' = Step("pongWait", ping.id, <<>>, <<>>)
            /\ UNCHANGED << TransportVars, closingTimer >>
  /\ UNCHANGED << RouterVars, OutVars, RateVars, InVars, isClient, kind >>

(* ------------------------------- timers ------------------------------- *)
(* TickMs of time pass: every unacknowledged entry grows older. *)
Older(age) ==
  IF age > RESEND_NOT_ANSWERED_MESSAGES_AFTER_MS THEN age ELSE age + TickMs

Tick ==
  /\ messagesToAck' = [i \in 1 .. Len(messagesToAck) |->
                         [messagesToAck[i] EXCEPT !.age = Older(@)]]
  /\ last' = Step("tick", SendAndForgetMsgID, <<>>, <<>>)
  /\ UNCHANGED << RouterVars, ping, TransportVars, GraceVars, nextMsgId, messagesToSendAfterReconnect, callbacks,
                  cbCalls, firstTx, RateVars, InVars >>

(* The 10 ms interval of the constructor. *)
RetryTimer ==
  LET r == IF ~isConnected THEN [acks |-> messagesToAck, sent |-> <<>>]
           ELSE resendOverdue(messagesToAck, 1, <<>>)
  IN /\ messagesToAck' = r.acks
     /\ firstTx' = NoteFirstTx(firstTx, r.sent)
     /\ last' = Step("retry", SendAndForgetMsgID, r.sent, <<>>)
     /\ UNCHANGED << RouterVars, ping, TransportVars, GraceVars, nextMsgId, messagesToSendAfterReconnect, callbacks,
                     cbCalls, RateVars, InVars >>

(* ------------------------- transport errors -------------------------- *)
(* strategy.send raises although isConnected() answered true: the entry of *)
(* the envelope is written before the send, and the error ends the caller's *)
(* loop.                                                                    *)
FirstOverdue(acks) ==
  IF \E i \in 1 .. Len(acks) : acks[i].age > RESEND_NOT_ANSWERED_MESSAGES_AFTER_MS
    THEN CHOOSE i \in 1 .. Len(acks) :
           /\ acks[i].age > RESEND_NOT_ANSWERED_MESSAGES_AFTER_MS
           /\ \A j \in 1 .. (i - 1) : acks[j].age <= RESEND_NOT_ANSWERED_MESSAGES_AFTER_MS
    ELSE NoIdx

(* post(msg, callback?) when the send raises: the error is caught and the   *)
(* id returned.                                                             *)
PostSendFails(msg, hasCallback) ==
  /\ isConnected
  /\ msg.type # RESPONSE
  /\ LET id == nextMsgId
         r == sendWrappedMsg(FALSE, messagesToAck, new_MsgWrapper(id, msg), NoIdx)
     IN /\ nextMsgId' = id + 1
        /\ messagesToAck' = r.acks
        /\ callbacks' = IF hasCallback THEN MapSet(callbacks, id, "app") ELSE callbacks
        /\ last' = Step("post", id, r.sent, <<>>)
  /\ UNCHANGED << RouterVars, ping, TransportVars, GraceVars, messagesToSendAfterReconnect,
                  cbCalls, firstTx, RateVars, InVars >>

(* The 10 ms interval when the send of its first overdue entry raises. *)
RetrySendFails ==
  /\ isConnected
  /\ FirstOverdue(messagesToAck) # NoIdx
  /\ LET i == FirstOverdue(messagesToAck)
         r == sendWrappedMsg(FALSE, messagesToAck, messagesToAck[i].wrappedMsg, i)
     IN /\ messagesToAck' = r.acks
        /\ last' = Step("retry", SendAndForgetMsgID, r.sent, <<>>)
  /\ UNCHANGED << RouterVars, ping, TransportVars, GraceVars, nextMsgId,
                  messagesToSendAfterReconnect, callbacks, cbCalls, firstTx, RateVars,
                  InVars >>

(* setStrategy when the send of the first queued envelope raises: the loop  *)
(* of sendMessagesFromLaterList ends before the queue is reset.             *)
FlushSendFails ==
  /\ strategy = "connecting"
  /\ pending = "setStrategy"
  /\ messagesToSendAfterReconnect # <<>>
  /\ strategy' = "open"
  /\ pending' = "none"
  /\ LET r == sendWrappedMsg(FALSE, messagesToAck, Head(messagesToSendAfterReconnect), NoIdx)
     IN /\ messagesToAck' = r.acks
        /\ last' = Step("setStrategyFailed", SendAndForgetMsgID, r.sent, <<>>)
  /\ closingTimer' = IF notifies(kind) THEN clearClosingTimer ELSE closingTimer
  /\ UNCHANGED << RouterVars, ping, closedByUser, nextMsgId, messagesToSendAfterReconnect,
                  callbacks, cbCalls, firstTx, RateVars, InVars, isClient, kind >>

(* The 1000 ms interval of the constructor. *)
RateReset ==
  /\ messagesSentInASecond' = 0
  /\ windowNo429' = 0
  /\ last' = Step("rateReset", SendAndForgetMsgID, <<>>, <<>>)
  /\ UNCHANGED << RouterVars, ping, TransportVars, GraceVars, OutVars, InVars >>

(* ------------------------------ receiving ----------------------------- *)
Saturating(n) == IF n < 2 THEN n + 1 ELSE n

NoResponse(id) == Value(new_MsgGenericError(id, Text("No response")))

SentResponse(emitted) == IF emitted = <<>> THEN Null ELSE emitted[1].msg

(* handleMessage(wrapper); hookThrows: the hook it invokes raises. *)
HandleMessage(wrapper, hookThrows) ==
  LET id == wrapper.id
      needsResponse == id # SendAndForgetMsgID
      msg == wrapper.msg
      alreadyReceived ==
        IF needsResponse
          THEN getReceivedPairById(receivedMessages, id, Len(receivedMessages))
          ELSE NoIdx
  IN IF alreadyReceived # NoIdx
       THEN LET pair == receivedMessages[alreadyReceived]
                r ==
                  IF pair.response.isPending
                    THEN postAndForget(messagesToAck, Value(new_MsgResponseWithCode(
                           id, 202, Text("Message is being processed"))))
                    ELSE postAndForget(messagesToAck, pair.response.original)
            IN /\ messagesToAck' = r.acks
               /\ last' = Step("duplicate", id, r.sent, <<>>)
               /\ delivered' = [delivered EXCEPT ![id] = Saturating(@)]
               /\ UNCHANGED << RouterVars, ping, TransportVars, GraceVars, nextMsgId,
                               messagesToSendAfterReconnect, callbacks, cbCalls, firstTx,
                               RateVars, receivedMessages, header, handlerCalls,
                               firstResponse >>
       ELSE LET d == dispatch(id, msg, hookThrows)
                chosen == IF d.response = Value(Null) THEN NoResponse(id) ELSE d.response
                r ==
                  IF ~needsResponse THEN [acks |-> d.acks, sent |-> <<>>]
                  ELSE IF d.threw
                    THEN postAndForget(d.acks, Value(new_MsgGenericError(
                           id, Text("Error handling message"))))
                    ELSE postAndForget(d.acks, chosen)
                emitted == r.sent
            IN /\ header' = d.header
               /\ callbacks' = d.callbacks
               /\ messagesToAck' = r.acks
               /\ cbCalls' = NoteCalls(cbCalls, d.cbs)
               /\ receivedMessages' =
                    IF needsResponse
                      THEN Append(receivedMessages,
                                  [wrapper |-> wrapper, response |-> TrackedPromise(chosen)])
                      ELSE receivedMessages
               /\ handlerCalls' =
                    IF needsResponse THEN [handlerCalls EXCEPT ![id] = @ + d.hooks]
                    ELSE handlerCalls
               /\ delivered' =
                    IF needsResponse THEN [delivered EXCEPT ![id] = Saturating(@)]
                    ELSE delivered
               /\ firstResponse' =
                    IF needsResponse
                      THEN [firstResponse EXCEPT ![id] = SentResponse(emitted)]
                      ELSE firstResponse
               /\ last' = [Step("handle", id, emitted, d.cbs)
                             EXCEPT !.threw = d.threw,
                                    !.res = IF msg.type = RESPONSE THEN msg ELSE Null]
               /\ ping' = notePong(ping, d.cbs)
               /\ UNCHANGED << RouterVars, TransportVars, GraceVars, nextMsgId,
                               messagesToSendAfterReconnect, firstTx, RateVars >>

(* A frame arrives at the open transport.  The strategy hands it to the     *)
(* callback given to onMessage if it invokes its callbacks at all (see      *)
(* notifies); the socket WebSocketStrategy.connect() creates has no         *)
(* onmessage handler, and the frame is lost.                                *)
FrameArrives(wrapper, hookThrows) ==
  /\ isConnected
  /\ IF notifies(kind)
       THEN HandleMessage(wrapper, hookThrows)
       ELSE /\ last' = Step("unheard", wrapper.id, <<>>, <<>>)
            /\ UNCHANGED << RouterVars, ping, TransportVars, GraceVars, OutVars, RateVars,
                            InVars >>

(* The promise of a route envelope's handling settles: the tracked outcome *)
(* records it and the postAndForget that awaits it goes on.                *)
RouteSettle(i, outcome) ==
  /\ i \in 1 .. Len(receivedMessages)
  /\ receivedMessages[i].response.isPending
  /\ LET id == receivedMessages[i].wrapper.id
         promise == handleRouteMessage(id, outcome)
         r == postAndForget(messagesToAck, promise)
         emitted == r.sent
     IN /\ messagesToAck' = r.acks
        /\ receivedMessages' =
             [receivedMessages EXCEPT ![i].response = TrackedPromise(promise)]
        /\ firstResponse' = [firstResponse EXCEPT ![id] = SentResponse(emitted)]
        /\ last' = Step("settle", id, emitted, <<>>)
  /\ UNCHANGED << RouterVars, ping, TransportVars, GraceVars, nextMsgId,
                  messagesToSendAfterReconnect, callbacks, cbCalls, firstTx, RateVars,
                  header, handlerCalls, delivered >>

(* ---------------------------- environment ---------------------------- *)
OutMsgs == { new_MsgSubscribeToRoute("/t/1") }

ResBodies(targets) ==
  { new_MsgResponse(t, st, Text("r")) : t \in targets, st \in {200, 202, 500} }

RequestBodies ==
  { msg_ConnDataSet("secret", "s1"), msg_ConnDataSet("secret", "s2"), pingMsg, new_MsgSubscribeToRoute("/t/1"),
    new_MsgUnsubscribeFromRoute("/t/1"), new_MsgRoute("/x/7", "POST", Text("d")),
    UnknownMsg }

(* What the peer may send as requests: every body with and without an id,  *)
(* and a res that carries an id although none should.                      *)
InEnvelopes ==
  { new_MsgWrapper(id, msg) : id \in InIds \cup {SendAndForgetMsgID}, msg \in RequestBodies }
  \cup { new_MsgWrapper(id, new_MsgResponse(0, 200, Text("r"))) : id \in InIds }

Outcomes ==
  { Void, Yield(new_RouteResponse(Text("d"))), Yield(new_RouteResponseError(Text("e"))),
    Failure }

(* The hook of an envelope may raise only if the envelope has one that runs *)
(* inside handleMessage.                                                    *)
MayThrow(wrapper) ==
  IF wrapper.msg.type \in {DATA_SET, ON_ROUTE, OFF_ROUTE} THEN BOOLEAN ELSE {FALSE}

RetryBounded ==
  \A i \in 1 .. Len(messagesToAck) :
    messagesToAck[i].age > RESEND_NOT_ANSWERED_MESSAGES_AFTER_MS
      => messagesToAck[i].sentAmount < MaxSentAmount

(* No entry has reached the bound on transmissions. *)
SendsBounded ==
  \A i \in 1 .. Len(messagesToAck) : messagesToAck[i].sentAmount < MaxSentAmount

(* The transport goes down by itself and is brought up again. *)
Reconnects == Connect \/ SetStrategy(kind) \/ ConnectResolved \/ TransportDrop

Lifecycle == Reconnects \/ Close

Posting(maxMsgs) ==
  /\ nextMsgId < maxMsgs
  /\ \/ \E msg \in OutMsgs : \E hasCallback \in BOOLEAN : Post(msg, hasCallback)
     \/ SendToRoute("/x/7", "POST", Text("p"), TRUE)

Timers == Tick \/ (RetryBounded /\ RetryTimer)

Requests(envelopes) ==
  \E wrapper \in envelopes : \E hookThrows \in MayThrow(wrapper) :
    HandleMessage(wrapper, hookThrows)

Settling ==
  \E i \in 1 .. Len(receivedMessages) : \E outcome \in Outcomes :
    RouteSettle(i, outcome)

(* The peer answers envelopes it has received. *)
Transmitted(id) == \E k \in 1 .. Len(firstTx) : firstTx[k] = id

Responses(targets) ==
  \E msg \in ResBodies(targets) :
    /\ Transmitted(msg.target)
    /\ HandleMessage(new_SendAndForgetMsgWrapper(msg), FALSE)

(* The sending side: the application posts, the peer answers. *)
NextOut ==
  \/ Posting(MaxMsgs)
  \/ Reconnects
  \/ Timers
  \/ Responses(0 .. (MaxMsgs - 1))

SpecOut == Init /\ [][NextOut]_vars

(* The receiving side: the peer sends requests, the handlers answer. *)
NextIn ==
  \/ Connect
  \/ ConnectResolved
  \/ TransportDrop
  \/ Requests(InEnvelopes)
  \/ Settling

SpecIn == Init /\ [][NextIn]_vars

(* Both sides at once, for a single outbound and a single inbound id. *)
AllEnvelopes ==
  { new_MsgWrapper(0, new_MsgRoute("/x/7", "POST", Text("d"))) }

Next ==
  \/ Posting(MaxAllMsgs)
  \/ (nextMsgId < MaxAllMsgs /\ SendPing)
  \/ PongWaitEnds
  \/ Lifecycle
  \/ Timers
  \/ Responses(0 .. (MaxAllMsgs - 1))
  \/ Requests(AllEnvelopes)
  \/ Settling

Spec == Init /\ [][Next]_vars

(* A burst of sendToRoute calls on a closed connection against the 1000 ms *)
(* reset.                                                                  *)
NextRate ==
  \/ (nextMsgId < MaxRateMsgs /\ SendToRoute("/x/7", "POST", Text("p"), TRUE))
  \/ RateReset

SpecRate == Init /\ [][NextRate]_vars

(* A burst of sendToRoute calls on an open connection; the peer answers    *)
(* the newest envelope, and at most one envelope in all.                   *)
NewestAnswered ==
  /\ isConnected
  /\ nextMsgId > 0
  /\ DOMAIN cbCalls \subseteq {nextMsgId - 1}
  /\ HandleMessage(new_SendAndForgetMsgWrapper(
                     new_MsgResponse(nextMsgId - 1, 200, Text("r"))), FALSE)

NextBurst ==
  \/ Connect
  \/ ConnectResolved
  \/ (isConnected /\ nextMsgId < MaxRateMsgs
        /\ SendToRoute("/x/7", "POST", Text("p"), TRUE))
  \/ NewestAnswered

SpecBurst == Init /\ [][NextBurst]_vars

(* The sending side of a single envelope under fair scheduling: a pending  *)
(* connect() completes, the timers keep firing, and the peer answers every *)
(* envelope it has received with a terminal response.                      *)
PeerAnswers(id) ==
  /\ isConnected
  /\ Transmitted(id)
  /\ HandleMessage(new_SendAndForgetMsgWrapper(new_MsgResponse(id, 200, Text("r"))), FALSE)

NextFair ==
  \/ Posting(MaxAllMsgs)
  \/ Lifecycle
  \/ Timers
  \/ Responses(0 .. (MaxAllMsgs - 1))

FairSpec ==
  /\ Init
  /\ [][NextFair]_vars
  /\ WF_vars(ConnectResolved)
  /\ WF_vars(Tick)
  /\ WF_vars(RetryBounded /\ RetryTimer)
  /\ \A id \in 0 .. (MaxAllMsgs - 1) : WF_vars(PeerAnswers(id))

(* Envelopes sent and received without an id next to envelopes with one.   *)
ForgetEnvelopes ==
  AllEnvelopes \cup { new_SendAndForgetMsgWrapper(new_MsgRoute("/x/7", "POST", Text("d"))) }

NextForget ==
  \/ Reconnects
  \/ SendToRouteAndForget("/x/7", "POST", Text("p"))
  \/ Posting(MaxAllMsgs)
  \/ \E hasCallback \in BOOLEAN : Post(new_MsgResponseOK(0, Text("r")), hasCallback)
  \/ Timers
  \/ Requests(ForgetEnvelopes)
  \/ Settling

SpecForget == Init /\ [][NextForget]_vars

(* The allocation of ids over the whole life of a connection: posts, route *)
(* messages and pings, open and closed, with retries.                       *)
NextIds ==
  \/ Posting(MaxMsgs)
  \/ (nextMsgId < MaxMsgs /\ SendPing)
  \/ PongWaitEnds
  \/ Lifecycle
  \/ Timers

SpecIds == Init /\ [][NextIds]_vars

(* The sending side with sends that raise. *)
SendErrors ==
  \/ (nextMsgId < MaxMsgs /\ \E msg \in OutMsgs : PostSendFails(msg, FALSE))
  \/ (RetryBounded /\ RetrySendFails)
  \/ (SendsBounded /\ FlushSendFails)

NextAcks ==
  \/ (nextMsgId < MaxMsgs /\ \E msg \in OutMsgs : Post(msg, FALSE))
  \/ Reconnects
  \/ Timers
  \/ SendErrors

SpecAcks == Init /\ [][NextAcks]_vars

(* Callbacks over the life of the transport: posts with and without one,   *)
(* close and reconnect, and the answers of the peer.                        *)
NextCallbacks ==
  \/ Posting(MaxMsgs)
  \/ Lifecycle
  \/ Responses(0 .. (MaxMsgs - 1))

SpecCallbacks == Init /\ [][NextCallbacks]_vars

(* Tracked outcomes built from a value (ping, set) and from a promise       *)
(* (route), delivered once or more, the promises settling in any way.       *)
TrackedEnvelopes ==
  { new_MsgWrapper(id, msg) :
      id \in InIds,
      msg \in { pingMsg, msg_ConnDataSet("lang", "en"),
                new_MsgRoute("/x/7", "POST", Text("d")) } }

NextTracked ==
  \/ Connect
  \/ ConnectResolved
  \/ TransportDrop
  \/ Requests(TrackedEnvelopes)
  \/ Settling

SpecTracked == Init /\ [][NextTracked]_vars

(* A client over either strategy and the frames that reach its transport.  *)
NextFrames ==
  \/ Connect
  \/ \E newKind \in Kinds : SetStrategy(newKind)
  \/ ConnectResolved
  \/ TransportDrop
  \/ \E wrapper \in TrackedEnvelopes : FrameArrives(wrapper, FALSE)
  \/ Settling

SpecFrames == Init /\ [][NextFrames]_vars

(* A peer that only sets header values, some of them twice under one id.   *)
SetEnvelopes ==
  { new_MsgWrapper(id, msg) :
      id \in InIds \cup {SendAndForgetMsgID},
      msg \in { msg_ConnDataSet("secret", "s1"), msg_ConnDataSet("lang", "en"),
                msg_ConnDataSet("lang", "fr") } }

NextHeader ==
  \/ Connect
  \/ ConnectResolved
  \/ TransportDrop
  \/ Requests(SetEnvelopes)

SpecHeader == Init /\ [][NextHeader]_vars

(* The life of the transport of any connection, client or server, over     *)
(* either strategy, with the grace timer.                                  *)
NextClose ==
  \/ Connect
  \/ \E newKind \in Kinds : SetStrategy(newKind)
  \/ ConnectResolved
  \/ Close
  \/ TransportDrop
  \/ GraceExpired
  \/ Posting(MaxAllMsgs)

SpecClose == InitAny /\ [][NextClose]_vars

(* ------------------------- the router at work ------------------------- *)
ConnectionVars ==
  << strategy, pending, nextMsgId, messagesToAck, receivedMessages,
     messagesToSendAfterReconnect, callbacks, messagesSentInASecond, header,
     closedByUser, last, firstTx, cbCalls, handlerCalls, delivered,
     firstResponse, windowNo429, isClient, kind, closingTimer, ping >>

(* onValidateBroadcast(route, validate), before the router serves *)
OnValidateBroadcast(route, validator) ==
  /\ conns = <<>>
  /\ router' = [router EXCEPT !.outRoutes = setOutRoute(@, route, validator)]
  /\ routed' = RouterStep("onValidateBroadcast", NoConn, route)
  /\ UNCHANGED << conns, ConnectionVars >>

(* onGet, onPost, onDelete(route, handler), before the router serves *)
On(route, verb, h) ==
  /\ conns = <<>>
  /\ router' = [router EXCEPT !.inRoutes = setInRoute(@, route, verb, h)]
  /\ routed' = RouterStep("register", NoConn, route)
  /\ UNCHANGED << conns, ConnectionVars >>

(* The secrets of the clients: each makes one connection, and reconnects. *)
Secrets == {"a", "b"}

(* Every accepted socket is a new one: the newest is bound to a connection. *)
NextSocket ==
  IF conns = <<>> THEN 1
  ELSE 1 + (CHOOSE n \in {conns[c].socket : c \in 1 .. Len(conns)} :
              \A c \in 1 .. Len(conns) : conns[c].socket <= n)

(* addSocket(socket, reconnectSecret); "" stands for null *)
AddSocket(reconnectSecret) ==
  /\ NextSocket <= MaxSockets
  /\ IF reconnectSecret # "" /\ reconnectSecret \in DOMAIN router.connections
       THEN LET c == router.connections[reconnectSecret]
            IN /\ conns' = [conns EXCEPT ![c] = setSocket(@, NextSocket)]
               /\ routed' = RouterStep("addSocket", c, reconnectSecret)
       ELSE /\ Len(conns) < Cardinality(Secrets)
            /\ conns' = Append(conns, newServer(NextSocket))
            /\ routed' = RouterStep("addSocket", Len(conns) + 1, reconnectSecret)
  /\ UNCHANGED << router, ConnectionVars >>

(* The response a server connection transmits for an envelope it handled. *)
Answer(conn, response) ==
  IF conn.readyState = "OPEN" THEN << new_SendAndForgetMsgWrapper(response) >> ELSE <<>>

(* The connection c receives an envelope with a new id and handles it:      *)
(* handleMessage, the hook the router installed in addSocket, the response. *)
Receive(c, msg) ==
  LET conn == conns[c]
      id == Len(conn.receivedMessages)
      error == new_MsgGenericError(id, Text("Error handling message"))
      received == [conn EXCEPT !.receivedMessages = Append(@, id)]
  IN /\ conn.readyState = "OPEN"
     /\ CASE msg.type = DATA_SET ->
               /\ conns' = [conns EXCEPT ![c] = [received EXCEPT !.secret = msg.value]]
               /\ router' = IF msg.key = "secret"
                              THEN [router EXCEPT !.connections = MapSet(@, msg.value, c)]
                              ELSE router
               /\ routed' = [RouterStep(DATA_SET, c, msg.value) EXCEPT
                               !.emitted = Answer(conn, new_MsgResponseOK(
                                                          id, << msg.key, msg.value >>))]
          [] msg.type = ON_ROUTE ->
               LET r == subscribeConnectionToRoute(router, msg.route, conn.secret)
               IN /\ conns' = [conns EXCEPT ![c] = received]
                  /\ router' = [router EXCEPT !.outRoutes = r.outRoutes]
                  /\ routed' = [RouterStep(ON_ROUTE, c, msg.route) EXCEPT
                                  !.before = router.outRoutes,
                                  !.emitted = Answer(conn, IF r.threw THEN error
                                                ELSE new_MsgResponseOK(id, Undefined))]
          [] msg.type = OFF_ROUTE ->
               LET r == unsubsctibeConnectionFromRoute(router, msg.route, conn.secret)
               IN /\ conns' = [conns EXCEPT ![c] = received]
                  /\ router' = [router EXCEPT !.outRoutes = r.outRoutes]
                  /\ routed' = [RouterStep(OFF_ROUTE, c, msg.route) EXCEPT
                                  !.emitted = Answer(conn, IF r.threw THEN error
                                                ELSE new_MsgResponseOK(id, Undefined))]
          [] msg.type = ROUTE_MESSAGE ->
               LET r == routeMessage(router.inRoutes, msg, 1)
                   response == handleRouteMessage(id, r.outcome)
               IN /\ conns' = [conns EXCEPT ![c] = received]
                  /\ router' = router
                  /\ routed' = [RouterStep(ROUTE_MESSAGE, c, msg) EXCEPT
                                  !.emitted = IF response.state = "rejected" THEN <<>>
                                              ELSE Answer(conn, response.value),
                                  !.invoked = r.invoked,
                                  !.sender = sender(router, conn.secret)]
     /\ UNCHANGED ConnectionVars

(* broadcastPost, broadcastDeletion, broadcastUpdate(route, payload,        *)
(* exceptConn); NoConn stands for no exceptConn.                            *)
Broadcast(route, action, payload, exceptConn) ==
  LET b == internalBroadcast(router, conns, route, exceptConn, 1,
                             [sent |-> <<>>, thens |-> <<>>, threw |-> FALSE])
  IN /\ conns' = sendToEach(conns, b.sent, route, action, payload)
     /\ router' = [router EXCEPT !.thens =
                     @ \o [k \in 1 .. Len(b.thens) |->
                             [conn |-> b.thens[k].conn, isValid |-> b.thens[k].isValid,
                              route |-> route, verb |-> action, payload |-> payload]]]
     /\ routed' = [RouterStep("broadcast", exceptConn, route) EXCEPT
                     !.sent = b.sent, !.threw = b.threw]
     /\ UNCHANGED ConnectionVars

broadcastPost(route, payload, exceptConn) == Broadcast(route, "POST", payload, exceptConn)

broadcastDeletion(route, payload, exceptConn) == Broadcast(route, "DELETE", payload, exceptConn)

broadcastUpdate(route, payload, exceptConn) == Broadcast(route, "UPDATE", payload, exceptConn)

(* The promise of a validator resolves: the continuation sends if it is     *)
(* valid.                                                                   *)
ValidationSettles(k) ==
  /\ k \in 1 .. Len(router.thens)
  /\ LET t == router.thens[k]
     IN /\ conns' = IF t.isValid
                      THEN [conns EXCEPT ![t.conn] = sendToRoute(@, t.route, t.verb, t.payload)]
                      ELSE conns
        /\ routed' = [RouterStep("then", t.conn, t.route) EXCEPT
                        !.sent = IF t.isValid THEN << t.conn >> ELSE <<>>]
  /\ router' = [router EXCEPT !.thens = RemoveAt(@, k)]
  /\ UNCHANGED ConnectionVars

(* The socket of the connection c closes: onclose starts the grace timer. *)
SocketCloses(c) ==
  /\ conns[c].readyState = "OPEN"
  /\ conns' = [conns EXCEPT ![c].readyState = "CLOSED", ![c].closingTimer = TRUE]
  /\ routed' = RouterStep("close", c, conns[c].socket)
  /\ UNCHANGED << router, ConnectionVars >>

(* A socket the connection c was bound to before closes: the onclose that  *)
(* setSocket gave it starts the grace timer of the connection.              *)
ReplacedSocketCloses(c) ==
  /\ \E ws \in conns[c].replaced :
       /\ conns' = [conns EXCEPT ![c].replaced = @ \ {ws}, ![c].closingTimer = TRUE]
       /\ routed' = RouterStep("close", c, ws)
  /\ UNCHANGED << router, ConnectionVars >>

(* The grace timer of the connection c expires: onClose, which the router   *)
(* set to removeConnection(conn.getSecret()).                               *)
ClosingTimerFires(c) ==
  /\ conns[c].closingTimer
  /\ conns' = [conns EXCEPT ![c].closingTimer = FALSE]
  /\ router' = removeConnection(router, conns[c].secret)
  /\ routed' = [RouterStep("onClose", c, conns[c].secret) EXCEPT !.onClose = TRUE]
  /\ UNCHANGED ConnectionVars

(* ------------------------ the router: environment --------------------- *)
Specific == << "t", ":id" >>

General == << ":kind", ":id" >>

Topics == { << "t", "1" >>, << "t", "2" >> }

Handshakes == { msg_ConnDataSet("secret", s) : s \in Secrets }

Subscriptions == { new_MsgSubscribeToRoute(t) : t \in Topics }

Unsubscriptions == { new_MsgUnsubscribeFromRoute(t) : t \in Topics }

Unsent == \A c \in 1 .. Len(conns) : conns[c].nextMsgId < MaxSends

(* The connection c has received fewer than n envelopes. *)
Fewer(c, n) == Len(conns[c].receivedMessages) < n

(* The application declares its outbound routes: the specific one with any  *)
(* validator, the general one open to all.                                  *)
Declaring ==
  \/ \E validator \in Validators : OnValidateBroadcast(Specific, validator)
  \/ OnValidateBroadcast(General, "allow")

Broadcasting ==
  /\ Unsent
  /\ router.thens = <<>>
  /\ \E exceptConn \in 0 .. Len(conns) :
       Broadcast(<< "t", "1" >>, "POST", Text("p"), exceptConn)

(* A router whose application broadcasts posts, deletions and updates to   *)
(* the subscribers of one topic, behind a validator that answers at once or *)
(* later.                                                                   *)
NextVerbs ==
  \/ \E validator \in {"allow", "onlyALater"} : OnValidateBroadcast(Specific, validator)
  \/ AddSocket("")
  \/ \E c \in 1 .. Len(conns) :
       \E msg \in Handshakes \cup { new_MsgSubscribeToRoute(<< "t", "1" >>) } :
         Fewer(c, MaxInbound) /\ Receive(c, msg)
  \/ (Unsent /\ router.thens = <<>> /\ broadcastPost(<< "t", "1" >>, Text("p"), NoConn))
  \/ (Unsent /\ router.thens = <<>> /\ broadcastDeletion(<< "t", "1" >>, Text("p"), NoConn))
  \/ (Unsent /\ router.thens = <<>> /\ broadcastUpdate(<< "t", "1" >>, Text("p"), NoConn))
  \/ \E k \in 1 .. Len(router.thens) : ValidationSettles(k)

SpecVerbs == Init /\ [][NextVerbs]_vars

(* A router that serves subscribers: connections subscribe, the            *)
(* application broadcasts.                                                  *)
NextFanout ==
  \/ Declaring
  \/ AddSocket("")
  \/ \E c \in 1 .. Len(conns) : \E msg \in Handshakes \cup Subscriptions :
       Fewer(c, MaxInbound) /\ Receive(c, msg)
  \/ Broadcasting
  \/ \E k \in 1 .. Len(router.thens) : ValidationSettles(k)

SpecFanout == Init /\ [][NextFanout]_vars

(* A router whose connections subscribe and unsubscribe. *)
NextSubscribe ==
  \/ Declaring
  \/ AddSocket("")
  \/ \E c \in 1 .. Len(conns) :
       \E msg \in Handshakes \cup Subscriptions \cup Unsubscriptions :
         Fewer(c, MaxSubscribing) /\ Receive(c, msg)

SpecSubscribe == Init /\ [][NextSubscribe]_vars

(* A router whose sockets close and whose clients come back. *)
NextSockets ==
  \/ OnValidateBroadcast(Specific, "allow")
  \/ \E reconnectSecret \in Secrets \cup {""} : AddSocket(reconnectSecret)
  \/ \E c \in 1 .. Len(conns) :
       \E msg \in Handshakes \cup {new_MsgSubscribeToRoute(<< "t", "1" >>)} :
         Fewer(c, MaxInbound) /\ Receive(c, msg)
  \/ Unsent /\ Broadcast(<< "t", "1" >>, "POST", Text("p"), NoConn)
  \/ \E c \in 1 .. Len(conns) : SocketCloses(c)
  \/ \E c \in 1 .. Len(conns) : ClosingTimerFires(c)

SpecSockets == Init /\ [][NextSockets]_vars

(* A router whose clients come back on a new socket before the old one     *)
(* has closed.                                                              *)
NextRebind ==
  \/ \E reconnectSecret \in Secrets \cup {""} : AddSocket(reconnectSecret)
  \/ \E c \in 1 .. Len(conns) : \E msg \in Handshakes :
       Fewer(c, MaxInbound) /\ Receive(c, msg)
  \/ \E c \in 1 .. Len(conns) : SocketCloses(c)
  \/ \E c \in 1 .. Len(conns) : ReplacedSocketCloses(c)
  \/ \E c \in 1 .. Len(conns) : ClosingTimerFires(c)

SpecRebind == Init /\ [][NextRebind]_vars

(* A router whose clients subscribe to one topic again and again, as they  *)
(* do after each reconnect, and whose application broadcasts to it.         *)
NextResubscribe ==
  \/ OnValidateBroadcast(Specific, "allow")
  \/ OnValidateBroadcast(General, "allow")
  \/ AddSocket("")
  \/ \E c \in 1 .. Len(conns) :
       \E msg \in Handshakes \cup { new_MsgSubscribeToRoute(<< "t", "1" >>) } :
         Fewer(c, MaxSubscribing) /\ Receive(c, msg)
  \/ Broadcasting

SpecResubscribe == Init /\ [][NextResubscribe]_vars

(* A router whose subscribers leave for good while the application goes on *)
(* broadcasting, to all or to all but one.                                  *)
NextDeparted ==
  \/ OnValidateBroadcast(Specific, "allow")
  \/ AddSocket("")
  \/ \E c \in 1 .. Len(conns) :
       \E msg \in Handshakes \cup { new_MsgSubscribeToRoute(<< "t", "1" >>) } :
         Fewer(c, MaxInbound) /\ Receive(c, msg)
  \/ \E c \in 1 .. Len(conns) : SocketCloses(c)
  \/ \E c \in 1 .. Len(conns) : ClosingTimerFires(c)
  \/ Broadcasting

SpecDeparted == Init /\ [][NextDeparted]_vars

(* A router whose connections subscribe and unsubscribe, some of them      *)
(* before they have told their secret.                                      *)
NextUnregistered ==
  \/ OnValidateBroadcast(Specific, "allow")
  \/ AddSocket("")
  \/ \E c \in 1 .. Len(conns) :
       \E msg \in Handshakes \cup { new_MsgSubscribeToRoute(<< "t", "1" >>),
                                    new_MsgUnsubscribeFromRoute(<< "t", "1" >>) } :
         Fewer(c, MaxInbound) /\ Receive(c, msg)

SpecUnregistered == Init /\ [][NextUnregistered]_vars

InPatterns == { << "x", ":id" >>, << "x", "7" >> }

Verbs == {"GET", "POST"}

RouteRequests ==
  { new_MsgRoute(route, verb, Text("d")) :
      route \in { << "x", "7" >>, << "x", "8" >>, << "y" >> }, verb \in Verbs }

(* A router that serves requests: the application registers its handlers,  *)
(* a connection sends route messages.                                       *)
NextRouting ==
  \/ \E route \in InPatterns : \E verb \in Verbs : \E h \in Handlers : On(route, verb, h)
  \/ conns = <<>> /\ AddSocket("")
  \/ \E c \in 1 .. Len(conns) : \E msg \in RouteRequests :
       Fewer(c, MaxInbound) /\ Receive(c, msg)

SpecRouting == Init /\ [][NextRouting]_vars

(* ------------------------------ properties ---------------------------- *)
Overdue(entry) == entry.age > RESEND_NOT_ANSWERED_MESSAGES_AFTER_MS

HasEntry(acks, id) == \E i \in 1 .. Len(acks) : acks[i].wrappedMsg.id = id

(* C1: if the transport eventually stays open and the peer answers every   *)
(* envelope it receives, the callback of every envelope posted with one,   *)
(* whether the transport was open or closed at the post, is eventually     *)
(* invoked.                                                                *)
C1_CallbackEventuallyInvoked ==
  (<>[]isConnected) =>
    \A id \in 0 .. (MaxAllMsgs - 1) :
      [](id \in DOMAIN callbacks => <>(MapGet(cbCalls, id, 0) > 0))

(* C2: an inbound envelope with an id that is delivered more than once has *)
(* its hook invoked exactly once: once delivered, the hook of its body     *)
(* type has run once however many deliveries followed, and a delivery that *)
(* is answered from the cache runs no hook.                                *)
C2_HookInvokedOnce ==
  \A id \in InIds :
    /\ handlerCalls[id] <= 1
    /\ delivered[id] >= 1 =>
         \E i \in 1 .. Len(receivedMessages) :
           /\ receivedMessages[i].wrapper.id = id
           /\ handlerCalls[id] =
                IF receivedMessages[i].wrapper.msg.type \in HookTypes THEN 1 ELSE 0

C2_DeliveredTwice ==
  /\ last.op = "duplicate"
  /\ delivered[last.id] = 2
  /\ handlerCalls[last.id] = 1

(* C3: the response re-sent for a duplicate that arrives after the first   *)
(* handling has settled is the response that was sent for the first        *)
(* delivery.                                                               *)
C3_DuplicateResendsFirstResponse ==
  ( /\ last.op = "duplicate"
    /\ last.emitted # <<>>
    /\ firstResponse[last.id] # Null
    /\ \E i \in 1 .. Len(receivedMessages) :
         /\ receivedMessages[i].wrapper.id = last.id
         /\ ~receivedMessages[i].response.isPending )
  => last.emitted[1].msg = firstResponse[last.id]

(* C4: when the route handler fails for an envelope with an id and the     *)
(* transport is open, the sender is answered with status 500 and the data  *)
(* "Error handling message".                                               *)
C4_HandlerFailureAnswered ==
  ( /\ last.op = "settle"
    /\ isConnected
    /\ \E i \in 1 .. Len(receivedMessages) :
         /\ receivedMessages[i].wrapper.id = last.id
         /\ receivedMessages[i].response.isRejected )
  => last.emitted =
       << new_SendAndForgetMsgWrapper(
            new_MsgGenericError(last.id, Text("Error handling message"))) >>

(* C5: first transmissions happen in post order, that is in the order of   *)
(* the ids.                                                                *)
C5_FirstTransmissionsInPostOrder ==
  \A j, k \in 1 .. Len(firstTx) : j < k => firstTx[j] < firstTx[k]

(* C6: a post made while the transport is not open is appended to the      *)
(* reconnect queue and not transmitted; the step that completes            *)
(* setStrategy transmits the whole queue in its order, leaves exactly one  *)
(* messagesToAck entry for each of its envelopes and empties it.           *)
C6_FlushStep ==
  /\ (last'.op \in {"post", "sendToRoute"} /\ ~isConnected) =>
       /\ last'.emitted = <<>>
       /\ Len(messagesToSendAfterReconnect') = Len(messagesToSendAfterReconnect) + 1
       /\ SubSeq(messagesToSendAfterReconnect', 1, Len(messagesToSendAfterReconnect))
            = messagesToSendAfterReconnect
       /\ messagesToSendAfterReconnect'[Len(messagesToSendAfterReconnect')].id = last'.id
  /\ last'.op = "setStrategyDone" =>
       /\ last'.emitted = messagesToSendAfterReconnect
       /\ messagesToSendAfterReconnect' = <<>>
       /\ \A k \in 1 .. Len(messagesToSendAfterReconnect) :
            Cardinality({ i \in 1 .. Len(messagesToAck') :
                            messagesToAck'[i].wrappedMsg = messagesToSendAfterReconnect[k] }) = 1

C6_QueueFlushedFifo == [][C6_FlushStep]_vars

C6_TwoFlushed ==
  /\ last.op = "setStrategyDone"
  /\ Len(last.emitted) = 2
  /\ last.emitted[1].id < last.emitted[2].id
  /\ messagesToSendAfterReconnect = <<>>

(* C7: a run of the retry timer on an open transport re-sends exactly the  *)
(* entries older than 3000 ms, each with its envelope unchanged, its       *)
(* sentAmount one higher and its age back at 0, and leaves the others as   *)
(* they are; on a transport that is not open it re-sends nothing.          *)
C7_RetryStep ==
  last'.op = "retry" =>
    IF isConnected
      THEN /\ Len(messagesToAck') = Len(messagesToAck)
           /\ \A i \in 1 .. Len(messagesToAck) :
                /\ messagesToAck'[i].wrappedMsg = messagesToAck[i].wrappedMsg
                /\ IF Overdue(messagesToAck[i])
                     THEN /\ messagesToAck'[i].sentAmount = messagesToAck[i].sentAmount + 1
                          /\ messagesToAck'[i].age = 0
                     ELSE messagesToAck'[i] = messagesToAck[i]
           /\ LET overdue == SelectSeq(messagesToAck, Overdue)
              IN last'.emitted = [i \in 1 .. Len(overdue) |-> overdue[i].wrappedMsg]
      ELSE /\ messagesToAck' = messagesToAck
           /\ last'.emitted = <<>>

C7_RetryResendsOverdue == [][C7_RetryStep]_vars

C7_Resent ==
  /\ last.op = "retry"
  /\ last.emitted # <<>>
  /\ \E i \in 1 .. Len(messagesToAck) :
       /\ messagesToAck[i].wrappedMsg = last.emitted[1]
       /\ messagesToAck[i].sentAmount = 2
       /\ messagesToAck[i].age = 0

(* C8: from close() until the next connect() or setStrategy() no step      *)
(* hands an envelope to the transport, and a post made in between only     *)
(* enqueues its envelope.                                                  *)
C8_SilentAfterClose ==
  closedByUser =>
    /\ last.emitted = <<>>
    /\ last.op \in {"post", "sendToRoute"} =>
         /\ messagesToSendAfterReconnect # <<>>
         /\ messagesToSendAfterReconnect[Len(messagesToSendAfterReconnect)].id = last.id
         /\ ~HasEntry(messagesToAck, last.id)

C8_PostedAfterClose ==
  /\ closedByUser
  /\ last.op = "post"
  /\ last.id = 0
  /\ Len(messagesToSendAfterReconnect) = 1

(* C9: the callback given to one post or sendToRoute call is invoked at    *)
(* most once.                                                              *)
C9_CallbackAtMostOnce ==
  \A id \in DOMAIN cbCalls : cbCalls[id] <= 1

(* C10: in a window that starts at a counter reset at most 100 sendToRoute *)
(* calls pass without the 429 callback.                                    *)
C10_AtMostLimitUnthrottled ==
  windowNo429 <= SEND_LIMIT_PER_SEC

(* C11: on a server connection a close of the transport leaves the grace   *)
(* timer pending and onClose is invoked only by its expiry; a re-opened    *)
(* transport has no grace timer pending; on a client connection a close of *)
(* the transport invokes onClose in the same step.                         *)
C11_GraceClose ==
  /\ (last.op = "drop" /\ ~isClient) => closingTimer
  /\ (last.op = "drop" /\ isClient) => last.onClose
  /\ (last.onClose /\ ~isClient) => last.op = "graceExpired"
  /\ isConnected => ~closingTimer

(* C12: a round of the ping loop starts only on an open transport and     *)
(* transmits one ping envelope under the next unused id; when its wait     *)
(* ends, close() has been called if no res with status 200 for that ping   *)
(* was handled during the round, and the transport is left alone if one    *)
(* was.                                                                    *)
C12_PingStep ==
  /\ last'.op = "ping" =>
       /\ isConnected
       /\ last'.id = nextMsgId
       /\ nextMsgId' = nextMsgId + 1
       /\ last'.emitted = << new_MsgWrapper(nextMsgId, pingMsg) >>
  /\ last'.op = "pongWait" =>
       IF ping.okSeen
         THEN UNCHANGED << strategy, pending, closedByUser >>
         ELSE strategy' = "closed" /\ closedByUser'

Listens(c, layer, route) ==
  LET m == match(layer.regexp, route)
  IN /\ m.matched
     /\ \E j \in 1 .. Len(layer.listeners) :
          /\ MapGet(router.connections, layer.listeners[j].conn, NoConn) = c
          /\ layer.listeners[j].params = m.params

(* Some layer has a listener of c for this path and a validator that is     *)
(* truthy for c.                                                            *)
Eligible(c, route, exceptConn) ==
  /\ c # exceptConn
  /\ \E i \in 1 .. Len(router.outRoutes) :
       /\ Listens(c, router.outRoutes[i], route)
       /\ validate(router.outRoutes[i].validate, conns[c]).isValid

SentTo(step, c) == \E k \in 1 .. Len(step.sent) : step.sent[k] = c

(* C13: a broadcast to a path calls sendToRoute only of a connection that   *)
(* is not exceptConn and that holds, in a layer that matches the path, a    *)
(* listener whose subscribe-time parameters equal the path's position by    *)
(* position, under a validator that answers truthy for it, at once or when  *)
(* its promise resolves; nothing else makes the router send to a            *)
(* connection.                                                              *)
C13_BroadcastStep ==
  \A c \in 1 .. Len(conns) :
    /\ conns'[c].nextMsgId # conns[c].nextMsgId =>
         routed'.op \in {"broadcast", "then"} /\ SentTo(routed', c)
    /\ (routed'.op = "broadcast" /\ SentTo(routed', c)) =>
         Eligible(c, routed'.input, routed'.conn)
    /\ (routed'.op = "broadcast"
          /\ \E k \in (Len(router.thens) + 1) .. Len(router'.thens) :
               router'.thens[k].conn = c /\ router'.thens[k].isValid) =>
         Eligible(c, routed'.input, routed'.conn)
    /\ (routed'.op = "then" /\ SentTo(routed', c)) =>
         \E k \in 1 .. Len(router.thens) :
           /\ router.thens[k].conn = c
           /\ router.thens[k].isValid
           /\ router'.thens = RemoveAt(router.thens, k)

C13_BroadcastToSubscribersOnly == [][C13_BroadcastStep]_vars

(* A broadcast to /t/1 reached a subscriber of /t/1 and passed over a       *)
(* subscriber of /t/2.                                                      *)
C13_OtherTopicPassedOver ==
  /\ routed.op = "broadcast"
  /\ routed.input = << "t", "1" >>
  /\ \E a \in 1 .. Len(conns) : \E b \in 1 .. Len(conns) :
       /\ SentTo(routed, a)
       /\ ~SentTo(routed, b)
       /\ b # routed.conn
       /\ \E j \in 1 .. Len(router.outRoutes[1].listeners) :
            /\ router.outRoutes[1].listeners[j].conn = conns[b].secret
            /\ router.outRoutes[1].listeners[j].params = << "2" >>
       /\ router.outRoutes[1].validate = "allow"

(* C14: when a connection of the directory has `on r` handled and then     *)
(* `off r`, every outbound layer lists the listeners it listed before the   *)
(* `on r`.                                                                  *)
C14_OnOffStep ==
  (/\ routed.op = ON_ROUTE
   /\ routed'.op = OFF_ROUTE
   /\ routed'.conn = routed.conn
   /\ routed'.input = routed.input
   /\ conns[routed.conn].secret \in DOMAIN router.connections) =>
     router'.outRoutes = routed.before

C14_OnThenOffRestores == [][C14_OnOffStep]_vars

(* C15: when the onClose of a server connection has fired, the directory   *)
(* has no entry for the connection's secret and no outbound layer keeps a   *)
(* listener with that secret.                                               *)
C15_ClosedConnectionPurged ==
  routed.onClose =>
    /\ routed.input \notin DOMAIN router.connections
    /\ \A i \in 1 .. Len(router.outRoutes) :
         \A j \in 1 .. Len(router.outRoutes[i].listeners) :
           router.outRoutes[i].listeners[j].conn # routed.input

(* The connection c is an entry of the directory r. *)
InDirectory(r, c) == \E s \in DOMAIN r.connections : r.connections[s] = c

(* C16: addSocket with a secret of the directory rebinds the connection of  *)
(* that entry to the new socket and creates none: its nextMsgId,            *)
(* messagesToAck, receivedMessages and the directory stay; any other        *)
(* addSocket creates a server connection that is in no entry of the         *)
(* directory, and a connection enters the directory only when it receives   *)
(* `set secret`, under the value received.                                  *)
C16_AddSocketStep ==
  /\ (routed'.op = "addSocket" /\ routed'.input \in DOMAIN router.connections) =>
       LET c == router.connections[routed'.input]
       IN /\ routed'.conn = c
          /\ Len(conns') = Len(conns)
          /\ router' = router
          /\ conns'[c].socket = NextSocket
          /\ conns'[c].nextMsgId = conns[c].nextMsgId
          /\ conns'[c].messagesToAck = conns[c].messagesToAck
          /\ conns'[c].receivedMessages = conns[c].receivedMessages
          /\ \A other \in 1 .. Len(conns) : other # c => conns'[other] = conns[other]
  /\ (routed'.op = "addSocket" /\ routed'.input \notin DOMAIN router.connections) =>
       /\ Len(conns') = Len(conns) + 1
       /\ routed'.conn = Len(conns')
       /\ conns'[Len(conns')].socket = NextSocket
       /\ conns'[Len(conns')].nextMsgId = 0
       /\ ~InDirectory(router', Len(conns'))
       /\ \A other \in 1 .. Len(conns) : conns'[other] = conns[other]
  /\ \A c \in 1 .. Len(conns) :
       (~InDirectory(router, c) /\ InDirectory(router', c)) =>
         /\ routed'.op = DATA_SET
         /\ routed'.conn = c
  /\ routed'.op = DATA_SET =>
       /\ routed'.input \in DOMAIN router'.connections
       /\ router'.connections[routed'.input] = routed'.conn

C16_AddSocketRebindsOrCreates == [][C16_AddSocketStep]_vars

(* A connection that has sent and received was rebound to a new socket. *)
C16_Rebound ==
  /\ routed.op = "addSocket"
  /\ routed.input \in Secrets
  /\ Len(conns) = 1
  /\ conns[routed.conn].nextMsgId > 0
  /\ conns[routed.conn].receivedMessages # <<>>
  /\ conns[routed.conn].socket = 2

(* C17: once the secret in the header of a connection is not empty, no     *)
(* step changes it.                                                         *)
C17_SecretStep == header["secret"] # "" => header'["secret"] = header["secret"]

C17_SecretNeverChanges == [][C17_SecretStep]_vars

(* The inbound layers whose expression accepts the path. *)
Matching(route) ==
  { i \in 1 .. Len(router.inRoutes) : match(router.inRoutes[i].regexp, route).matched }

Earliest(layers) == CHOOSE i \in layers : \A j \in layers : i <= j

(* The first matching layer has no handler for the verb. *)
VerbMissing(msg) ==
  /\ Matching(msg.route) # {}
  /\ VerbIndex(router.inRoutes[Earliest(Matching(msg.route))].verbs, msg.verb, 1) = NoIdx

(* The id of the envelope the connection handled last. *)
LastId(c) == Len(conns[c].receivedMessages) - 1

(* C18: a route message is handled by the earliest registered layer that   *)
(* accepts its path and by no other: a handler that runs is one of that     *)
(* layer, and if that layer has no handler for the verb the answer is an    *)
(* error and no handler of any layer runs.                                  *)
C18_FirstMatchWins ==
  (routed.op = ROUTE_MESSAGE /\ Matching(routed.input.route) # {}) =>
    /\ \A k \in 1 .. Len(routed.invoked) :
         routed.invoked[k].layer = Earliest(Matching(routed.input.route))
    /\ VerbMissing(routed.input) =>
         /\ routed.invoked = <<>>
         /\ Len(routed.emitted) = 1
         /\ routed.emitted[1].msg.status # 200

(* A later layer had a handler for the verb that the first matching layer   *)
(* lacked, and it was not run.                                              *)
C18_LaterLayerNotConsulted ==
  /\ routed.op = ROUTE_MESSAGE
  /\ Cardinality(Matching(routed.input.route)) = 2
  /\ VerbMissing(routed.input)
  /\ VerbIndex(router.inRoutes[2].verbs, routed.input.verb, 1) # NoIdx
  /\ routed.invoked = <<>>

(* C19: a route request whose path the first matching layer accepts        *)
(* without a handler for its verb is answered with status 400 and the data  *)
(* `Route "<route>" does not support verb "<verb>"`, and runs no handler.   *)
C19_VerbMismatchAnswered ==
  (routed.op = ROUTE_MESSAGE /\ VerbMissing(routed.input)) =>
    /\ routed.emitted =
         << new_SendAndForgetMsgWrapper(
              new_MsgResponse(LastId(routed.conn), 400,
                              VerbMismatchText(routed.input.route, routed.input.verb))) >>
    /\ routed.invoked = <<>>

(* With a GET handler only, a POST to the same path was answered. *)
C19_PostToGetOnly ==
  /\ routed.op = ROUTE_MESSAGE
  /\ routed.input.verb = "POST"
  /\ Len(router.inRoutes) = 1
  /\ Len(router.inRoutes[1].verbs) = 1
  /\ router.inRoutes[1].verbs[1].verb = "GET"
  /\ Matching(routed.input.route) = {1}
  /\ routed.emitted # <<>>

(* The handler a route request is matched to: the one of the first         *)
(* matching layer for the verb.                                             *)
Matched(msg) ==
  LET layer == router.inRoutes[Earliest(Matching(msg.route))]
  IN layer.verbs[VerbIndex(layer.verbs, msg.verb, 1)].handler

(* C20: a route request matched to a handler for its verb runs that        *)
(* handler once, with params built from the captures of the path; the       *)
(* requester receives status 400 with data = ctx.error if the handler set   *)
(* ctx.error, and status 200 with data = ctx.response otherwise.            *)
C20_HandlerAnswers ==
  (/\ routed.op = ROUTE_MESSAGE
   /\ Matching(routed.input.route) # {}
   /\ ~VerbMissing(routed.input)) =>
     LET first == Earliest(Matching(routed.input.route))
         params == ParamsOf(router.inRoutes[first].keys,
                            match(router.inRoutes[first].regexp, routed.input.route).params)
         ctx == handler(Matched(routed.input), params)
     IN /\ routed.invoked =
             << [handler |-> Matched(routed.input), layer |-> first, params |-> params] >>
        /\ \A k \in DOMAIN params :
             \E i \in 1 .. Len(routed.input.route) : params[k] = Text(routed.input.route[i])
        /\ routed.emitted =
             << new_SendAndForgetMsgWrapper(
                  IF ctx.error # Undefined
                    THEN new_MsgResponse(LastId(routed.conn), 400, ctx.error)
                    ELSE new_MsgResponse(LastId(routed.conn), 200, ctx.response)) >>

(* C21: the first handling of an inbound set envelope with an id writes    *)
(* header[key] = value and leaves every other key of the header as it was,  *)
(* invokes onDataSet once, and, when the hook returns, chooses the response *)
(* {target: id, status: 200, data: [key, value]}, which is transmitted as   *)
(* send-and-forget if the transport is open.                                *)
C21_SetStep ==
  ( /\ last'.op = "handle"
    /\ last'.id # SendAndForgetMsgID
    /\ Len(receivedMessages') = Len(receivedMessages) + 1
    /\ receivedMessages'[Len(receivedMessages')].wrapper.msg.type = DATA_SET )
  => LET entry == receivedMessages'[Len(receivedMessages')]
         id == entry.wrapper.id
         msg == entry.wrapper.msg
         answer == new_MsgResponse(id, 200, << msg.key, msg.value >>)
     IN /\ id = last'.id
        /\ DOMAIN header' = DOMAIN header \cup {msg.key}
        /\ header'[msg.key] = msg.value
        /\ \A k \in DOMAIN header \ {msg.key} : header'[k] = header[k]
        /\ handlerCalls'[id] = handlerCalls[id] + 1
        /\ ~last'.threw =>
             /\ entry.response.original = Value(answer)
             /\ last'.emitted = IF isConnected
                                  THEN << new_SendAndForgetMsgWrapper(answer) >>
                                  ELSE <<>>

C21_SetHandled == [][C21_SetStep]_vars

C21_LangSet ==
  /\ last.op = "handle"
  /\ last.id = 0
  /\ ~last.threw
  /\ "lang" \in DOMAIN header
  /\ header["lang"] = "en"
  /\ header["secret"] = "s0"
  /\ handlerCalls[0] = 1
  /\ last.emitted = << new_SendAndForgetMsgWrapper(new_MsgResponse(0, 200, << "lang", "en" >>)) >>

(* C22: an envelope without an id is transmitted only if the transport is  *)
(* open when it is sent and is dropped otherwise: sendToRouteAndForget and  *)
(* the sends of responses leave nextMsgId, messagesToAck and the reconnect  *)
(* queue without a new entry, no entry of either list ever has the id -1,   *)
(* the retry timer and the queue flush transmit no envelope with the id -1, *)
(* and handling an inbound envelope with the id -1 leaves receivedMessages  *)
(* as it was.                                                               *)
C22_ForgetStep ==
  /\ \A i \in 1 .. Len(messagesToAck') :
       messagesToAck'[i].wrappedMsg.id # SendAndForgetMsgID
  /\ \A i \in 1 .. Len(messagesToSendAfterReconnect') :
       messagesToSendAfterReconnect'[i].id # SendAndForgetMsgID
  /\ \A i \in 1 .. Len(receivedMessages') :
       receivedMessages'[i].wrapper.id # SendAndForgetMsgID
  /\ last'.op = "forget" =>
       /\ UNCHANGED << nextMsgId, messagesToAck, messagesToSendAfterReconnect, callbacks >>
       /\ IF isConnected
            THEN /\ Len(last'.emitted) = 1
                 /\ last'.emitted[1].id = SendAndForgetMsgID
                 /\ last'.emitted[1].msg.type = ROUTE_MESSAGE
            ELSE last'.emitted = <<>>
  /\ (last'.op \in {"handle", "duplicate", "settle"} /\ last' # last) =>
       /\ UNCHANGED << nextMsgId, messagesToSendAfterReconnect >>
       /\ Len(messagesToAck') <= Len(messagesToAck)
       /\ \A k \in 1 .. Len(last'.emitted) : last'.emitted[k].id = SendAndForgetMsgID
       /\ ~isConnected => last'.emitted = <<>>
  /\ last'.op \in {"retry", "setStrategyDone", "connectDone"} =>
       \A k \in 1 .. Len(last'.emitted) : last'.emitted[k].id # SendAndForgetMsgID
  /\ (last'.op = "handle" /\ last'.id = SendAndForgetMsgID) =>
       receivedMessages' = receivedMessages

C22_SendAndForget == [][C22_ForgetStep]_vars

C22_DroppedWhileClosed ==
  /\ last.op = "forget"
  /\ ~isConnected
  /\ last.emitted = <<>>
  /\ nextMsgId = 1
  /\ Len(messagesToSendAfterReconnect) = 1
  /\ messagesToAck = <<>>
  /\ receivedMessages = <<>>

(* C23: a duplicate of an envelope with an id whose first handling is      *)
(* still pending is answered with {target: id, status: 202, data: "Message  *)
(* is being processed"} without an id, transmitted if the transport is      *)
(* open, and nothing else changes: receivedMessages, the header and the     *)
(* sending side stay as they were and no hook is invoked.                   *)
C23_PendingDuplicateStep ==
  ( /\ last'.op = "duplicate"
    /\ \E i \in 1 .. Len(receivedMessages) :
         /\ receivedMessages[i].wrapper.id = last'.id
         /\ receivedMessages[i].response.original.state = "pending" )
  => /\ last'.emitted =
          IF isConnected
            THEN << new_SendAndForgetMsgWrapper(
                      new_MsgResponse(last'.id, 202, Text("Message is being processed"))) >>
            ELSE <<>>
     /\ last'.cbs = <<>>
     /\ UNCHANGED << receivedMessages, handlerCalls, header, callbacks, cbCalls,
                     messagesToAck, messagesToSendAfterReconnect, nextMsgId,
                     strategy, pending, closingTimer, messagesSentInASecond >>

C23_PendingDuplicate == [][C23_PendingDuplicateStep]_vars

C23_AnsweredProcessing ==
  /\ last.op = "duplicate"
  /\ last.id = 0
  /\ last.emitted = << new_SendAndForgetMsgWrapper(
                         new_MsgResponse(0, 202, Text("Message is being processed"))) >>
  /\ Len(receivedMessages) = 1
  /\ receivedMessages[1].response.original.state = "pending"
  /\ handlerCalls[0] = 1
  /\ delivered[0] = 2

(* C24: handling a res with status 202 leaves callbacks and messagesToAck  *)
(* as they were and invokes no callback; handling a res with another status *)
(* invokes the callback registered for its target, if there is one, once    *)
(* and with that response, removes it, removes the messagesToAck entry of   *)
(* the target, and leaves the callbacks and entries of every other id as    *)
(* they were.                                                               *)
C24_ResponseStep ==
  (last'.op = "handle" /\ last'.res # Null) =>
    LET msg == last'.res
        t == msg.target
    IN IF msg.status = 202
         THEN /\ callbacks' = callbacks
              /\ messagesToAck' = messagesToAck
              /\ cbCalls' = cbCalls
              /\ last'.cbs = <<>>
         ELSE /\ t \notin DOMAIN callbacks'
              /\ \A id \in DOMAIN callbacks \ {t} :
                   id \in DOMAIN callbacks' /\ callbacks'[id] = callbacks[id]
              /\ DOMAIN callbacks' \subseteq DOMAIN callbacks
              /\ ~HasEntry(messagesToAck', t)
              /\ messagesToAck' =
                   SelectSeq(messagesToAck, LAMBDA e : e.wrappedMsg.id # t)
              /\ last'.cbs =
                   IF t \in DOMAIN callbacks
                     THEN << [id |-> t,
                              response |-> IF msg.status = 200
                                             THEN new_RouteResponse(msg.data)
                                             ELSE new_RouteResponseError(msg.data)] >>
                     ELSE <<>>
              /\ \A id \in DOMAIN cbCalls' :
                   cbCalls'[id] = MapGet(cbCalls, id, 0)
                                    + (IF id = t /\ t \in DOMAIN callbacks THEN 1 ELSE 0)

Allocating == {"post", "sendToRoute", "ping"}

Kept(wrapper) ==
  \/ \E i \in 1 .. Len(messagesToAck) : messagesToAck[i].wrappedMsg = wrapper
  \/ \E i \in 1 .. Len(messagesToSendAfterReconnect) :
       messagesToSendAfterReconnect[i] = wrapper

(* C25: nextMsgId never decreases; post, sendToRoute and a ping take the   *)
(* value of nextMsgId as the id of their envelope and raise it by one; no   *)
(* other step, close, connect and setStrategy included, changes it; every   *)
(* envelope kept or transmitted has an id below nextMsgId, and an envelope  *)
(* transmitted by a step that allocates no id is one that was kept, so no   *)
(* two envelopes share an id.                                               *)
C25_IdStep ==
  /\ nextMsgId' >= nextMsgId
  /\ IF last'.op \in Allocating /\ ~last'.threw
       THEN /\ nextMsgId' = nextMsgId + 1
            /\ last'.id = nextMsgId
            /\ \A k \in 1 .. Len(last'.emitted) : last'.emitted[k].id = nextMsgId
       ELSE /\ nextMsgId' = nextMsgId
            /\ \A k \in 1 .. Len(last'.emitted) :
                 last'.emitted[k].id # SendAndForgetMsgID => Kept(last'.emitted[k])
  /\ \A i \in 1 .. Len(messagesToAck') : messagesToAck'[i].wrappedMsg.id < nextMsgId'
  /\ \A i \in 1 .. Len(messagesToSendAfterReconnect') :
       messagesToSendAfterReconnect'[i].id < nextMsgId'
  /\ \A i, j \in 1 .. Len(messagesToSendAfterReconnect') :
       i # j => messagesToSendAfterReconnect'[i].id # messagesToSendAfterReconnect'[j].id

C25_IdsMonotonic == [][C25_IdStep]_vars

C25_SecondIdAfterClose ==
  /\ last.op = "post"
  /\ last.id = 1
  /\ nextMsgId = 2
  /\ closedByUser
  /\ messagesToSendAfterReconnect = << new_MsgWrapper(1, new_MsgSubscribeToRoute("/t/1")) >>
  /\ HasEntry(messagesToAck, 0)

(* C26: messagesToAck never holds two entries for one message id, whether  *)
(* the entries come from first sends, retries of the timer, flushes of the  *)
(* reconnect queue or sends that raised.                                    *)
C26_OneEntryPerId ==
  \A i, j \in 1 .. Len(messagesToAck) :
    i # j => messagesToAck[i].wrappedMsg.id # messagesToAck[j].wrappedMsg.id

C26_FlushedAgainAfterError ==
  /\ last.op = "setStrategyDone"
  /\ last.emitted # <<>>
  /\ \E i \in 1 .. Len(messagesToAck) :
       /\ messagesToAck[i].wrappedMsg = last.emitted[1]
       /\ messagesToAck[i].sentAmount = 2
  /\ firstTx = << last.emitted[1].id >>

(* C27: receivedMessages never holds two entries for one inbound id, and   *)
(* it holds an entry for every id under which an envelope was ever          *)
(* delivered, whatever became of its handling.                              *)
C27_ReceivedOncePerId ==
  /\ \A i, j \in 1 .. Len(receivedMessages) :
       i # j => receivedMessages[i].wrapper.id # receivedMessages[j].wrapper.id
  /\ \A id \in InIds :
       delivered[id] >= 1 =>
         \E i \in 1 .. Len(receivedMessages) : receivedMessages[i].wrapper.id = id

C27_KeptAfterFailure ==
  /\ last.op = "duplicate"
  /\ delivered[0] = 2
  /\ Len(receivedMessages) = 1
  /\ receivedMessages[1].wrapper.id = 0
  /\ receivedMessages[1].response.original = NoResponse(0)

(* C28: no entry of messagesToAck or of the reconnect queue ever has a res *)
(* body, every res handed to the transport has the id -1, and a post of a   *)
(* res body raises and leaves nextMsgId, the callbacks, both lists and the  *)
(* transport as they were, transmitting nothing.                            *)
C28_ResStep ==
  /\ \A i \in 1 .. Len(messagesToAck') : messagesToAck'[i].wrappedMsg.msg.type # RESPONSE
  /\ \A i \in 1 .. Len(messagesToSendAfterReconnect') :
       messagesToSendAfterReconnect'[i].msg.type # RESPONSE
  /\ \A k \in 1 .. Len(last'.emitted) :
       last'.emitted[k].msg.type = RESPONSE => last'.emitted[k].id = SendAndForgetMsgID
  /\ (last'.op = "post" /\ last'.threw) =>
       /\ last'.emitted = <<>>
       /\ last'.id = SendAndForgetMsgID
       /\ UNCHANGED << nextMsgId, callbacks, messagesToAck, messagesToSendAfterReconnect,
                       strategy, pending, closedByUser, closingTimer, receivedMessages,
                       header, messagesSentInASecond, cbCalls >>

C28_ResNeverAcked == [][C28_ResStep]_vars

C28_PostOfResRaised ==
  /\ last.op = "post"
  /\ last.threw
  /\ nextMsgId = 1
  /\ HasEntry(messagesToAck, 0)
  /\ DOMAIN callbacks = {0}
  /\ Len(receivedMessages) = 1
  /\ ~receivedMessages[1].response.isPending

(* C29: after close() the callbacks map holds no entry. *)
C29_CallbacksEmptyAfterClose ==
  last.op = "close" => DOMAIN callbacks = {}

(* C29, amended: close() leaves the callbacks map as it is (setStrategy,    *)
(* which calls it, included); an entry leaves the map only in the step that *)
(* handles a res for its id with a status other than 202.                   *)
C29_CloseStep ==
  /\ last'.op \in {"close", "setStrategy"} => callbacks' = callbacks
  /\ \A id \in DOMAIN callbacks \ DOMAIN callbacks' :
       /\ last'.op = "handle"
       /\ last'.res # Null
       /\ last'.res.target = id
       /\ last'.res.status # 202

C29_CloseKeepsCallbacks == [][C29_CloseStep]_vars

C29_CallbackKeptOverClose ==
  /\ last.op = "close"
  /\ strategy = "closed"
  /\ DOMAIN callbacks = {0, 1}
  /\ HasEntry(messagesToAck, 0)
  /\ Len(messagesToSendAfterReconnect) = 1

(* C30: every route envelope a connection of the router keeps for          *)
(* transmission, whether sent or queued, by a broadcast or by the           *)
(* continuation of a validator, carries a verb of RouteVerb.                *)
C30_RouteVerbsKnown ==
  \A c \in 1 .. Len(conns) :
    /\ \A i \in 1 .. Len(conns[c].messagesToAck) :
         LET msg == conns[c].messagesToAck[i].wrappedMsg.msg
         IN msg.type = ROUTE_MESSAGE => msg.verb \in RouteVerb
    /\ \A i \in 1 .. Len(conns[c].messagesToSendAfterReconnect) :
         LET msg == conns[c].messagesToSendAfterReconnect[i].msg
         IN msg.type = ROUTE_MESSAGE => msg.verb \in RouteVerb

(* The number of the flags isPending, isFulfilled, isRejected that are set. *)
Flags(tracked) ==
  (IF tracked.isPending THEN 1 ELSE 0) + (IF tracked.isFulfilled THEN 1 ELSE 0)
    + (IF tracked.isRejected THEN 1 ELSE 0)

(* C31: every tracked outcome has exactly one of its three flags set; one   *)
(* built from a value is fulfilled from its construction and one built from *)
(* a promise is pending; a pending one stays as it is or becomes fulfilled  *)
(* or rejected, one that is not pending never changes again, and            *)
(* getOriginal stays the value or the promise it was built from.            *)
C31_TrackedStep ==
  /\ \A i \in 1 .. Len(receivedMessages') :
       Flags(receivedMessages'[i].response) = 1
  /\ \A i \in (Len(receivedMessages) + 1) .. Len(receivedMessages') :
       LET t == receivedMessages'[i].response
       IN IF t.original.promise
            THEN t.isPending /\ t.original = PendingPromise
            ELSE t.isFulfilled /\ t.original.state = "value"
  /\ \A i \in 1 .. Len(receivedMessages) :
       LET t == receivedMessages[i].response
           u == receivedMessages'[i].response
       IN /\ u.original.promise = t.original.promise
          /\ ~t.isPending => u = t
          /\ t.isPending => \/ u = t
                            \/ /\ ~u.isPending
                               /\ u.isFulfilled = (u.original.state = "fulfilled")
                               /\ u.isRejected = (u.original.state = "rejected")

C31_SingleAssignment == [][C31_TrackedStep]_vars

C31_RejectedOnce ==
  /\ last.op = "duplicate"
  /\ Len(receivedMessages) = 1
  /\ receivedMessages[1].response.isRejected
  /\ ~receivedMessages[1].response.isPending
  /\ ~receivedMessages[1].response.isFulfilled
  /\ receivedMessages[1].response.original.promise

(* C32: the reconnect queue does not stay filled while the transport is    *)
(* open: whenever the transport is open with envelopes queued, they are     *)
(* eventually handed to it (which empties the queue) unless the transport   *)
(* closes first, whichever of connect() and setStrategy() opened it.        *)
C32_QueueEventuallyFlushed ==
  (isConnected /\ messagesToSendAfterReconnect # <<>>)
    ~> (messagesToSendAfterReconnect = <<>> \/ ~isConnected)

(* C33: over the socket transport no frame that arrives at the open         *)
(* transport goes unheard by the connection, and a close of the socket      *)
(* reaches the connection's close handler, which invokes onClose on a       *)
(* client and starts the grace timer on a server.                           *)
C33_HandlersAttached ==
  kind = "websocket" =>
    /\ last.op # "unheard"
    /\ last.op = "drop" => IF isClient THEN last.onClose ELSE closingTimer

(* C34: onClose of a server connection, and with it the removal from the    *)
(* directory, fires only when the socket the connection is bound to is not  *)
(* open.                                                                    *)
C34_OnCloseOnlyWhenClosed ==
  routed.onClose => conns[routed.conn].readyState # "OPEN"

(* How many times x occurs in seq. *)
Times(seq, x) == Cardinality({ k \in 1 .. Len(seq) : seq[k] = x })

(* C35: one broadcast calls sendToRoute of a connection at most once for    *)
(* each outbound layer that matches the path and in which the connection    *)
(* listens to it, however often the connection sent `on` for the path.      *)
C35_OncePerLayer ==
  routed.op = "broadcast" =>
    \A c \in 1 .. Len(conns) :
      Times(routed.sent, c) <=
        Cardinality({ i \in 1 .. Len(router.outRoutes) :
                        Listens(c, router.outRoutes[i], routed.input) })

(* C36: a broadcast does not raise, and it calls sendToRoute of every       *)
(* connection of the directory, other than exceptConn, that listens to the  *)
(* path in a matching layer whose validator answers truthy for it at once.  *)
C36_BroadcastNeverRaises ==
  routed.op = "broadcast" =>
    /\ ~routed.threw
    /\ \A c \in 1 .. Len(conns) :
         (/\ c # routed.conn
          /\ \E i \in 1 .. Len(router.outRoutes) :
               /\ Listens(c, router.outRoutes[i], routed.input)
               /\ router.outRoutes[i].validate \in {"allow", "onlyA"}
               /\ validate(router.outRoutes[i].validate, conns[c]).isValid)
           => SentTo(routed, c)

(* C37: the handler a route envelope invokes is given, as ctx.sender, the   *)
(* connection the envelope was received on.                                 *)
C37_SenderIsReceiver ==
  (routed.op = ROUTE_MESSAGE /\ routed.invoked # <<>>) => routed.sender = routed.conn

(* The connection c has not been given up: its socket is open or its grace  *)
(* timer is still running.                                                  *)
Live(c) == conns[c].readyState = "OPEN" \/ conns[c].closingTimer

(* C38: the directory entry of the secret a live connection holds refers to *)
(* that connection, and no connection is registered under two secrets.      *)
C38_DirectoryEntryKept ==
  /\ \A c \in 1 .. Len(conns) :
       (Live(c) /\ conns[c].secret \in DOMAIN router.connections) =>
         router.connections[conns[c].secret] = c
  /\ \A s1 \in DOMAIN router.connections : \A s2 \in DOMAIN router.connections :
       router.connections[s1] = router.connections[s2] => s1 = s2

(* The handlers of the step all returned without setting a response or an   *)
(* error.                                                                   *)
SilentHandlerRan(step) ==
  /\ step.invoked # <<>>
  /\ \A k \in 1 .. Len(step.invoked) : step.invoked[k].handler = "silent"

(* C39: a route request whose path no inbound layer accepts runs no         *)
(* handler and is answered with status 200 and the data "OK", which is      *)
(* also the answer to a request whose handler set neither a response nor    *)
(* an error.                                                                *)
C39_UnmatchedAnsweredOK ==
  routed.op = ROUTE_MESSAGE =>
    /\ Matching(routed.input.route) = {} => routed.invoked = <<>>
    /\ (Matching(routed.input.route) = {} \/ SilentHandlerRan(routed)) =>
         routed.emitted =
           << new_SendAndForgetMsgWrapper(
                new_MsgResponse(LastId(routed.conn), 200, Text("OK"))) >>

(* With a handler registered for another path, a request to /y was          *)
(* answered.                                                                *)
C39_UnmatchedAnswered ==
  /\ routed.op = ROUTE_MESSAGE
  /\ router.inRoutes # <<>>
  /\ routed.input.route = << "y" >>
  /\ Matching(routed.input.route) = {}
  /\ routed.emitted # <<>>

(* C40: an `on` or `off` received on a connection whose secret is not a key *)
(* of the directory is answered with status 500 and the data "Error         *)
(* handling message", and leaves the listeners of every outbound layer and  *)
(* the directory as they were.                                              *)
C40_UnregisteredStep ==
  (/\ routed'.op \in {ON_ROUTE, OFF_ROUTE}
   /\ conns[routed'.conn].secret \notin DOMAIN router.connections) =>
     /\ router'.outRoutes = router.outRoutes
     /\ router'.connections = router.connections
     /\ routed'.emitted =
          << new_SendAndForgetMsgWrapper(
               new_MsgResponse(Len(conns[routed'.conn].receivedMessages), 500,
                               Text("Error handling message"))) >>

C40_UnregisteredRefused == [][C40_UnregisteredStep]_vars

(* A connection that had not told its secret asked for a topic another     *)
(* connection listens to, and was answered.                                 *)
C40_RefusedBesideListener ==
  /\ routed.op = ON_ROUTE
  /\ conns[routed.conn].secret \notin DOMAIN router.connections
  /\ \E i \in 1 .. Len(router.outRoutes) : router.outRoutes[i].listeners # <<>>
  /\ routed.emitted # <<>>

====
